---------------------------- MODULE Spec2Model ----------------------------
(***************************************************************************)
(* A model of the rendering pipeline of saba: the HTML tokenizer           *)
(* (renderer/html/token.rs), the HTML tree constructor                     *)
(* (renderer/html/parser.rs), the CSS parser (renderer/css/cssom.rs), the  *)
(* style cascade and the layout tree (renderer/layout) and the page        *)
(* (renderer/page.rs).                                                     *)
(*                                                                         *)
(* Strings are sequences of one-character strings, so that pushing a       *)
(* character, slicing and lower-casing are computed as the code does.      *)
(* Rust indices are 0-based and kept so: input[pos] is written             *)
(* t.input[t.pos + 1].                                                     *)
(***************************************************************************)
EXTENDS Integers, Sequences, FiniteSets, TLC

VARIABLES
    t,                        \* HtmlTokenizer (token.rs:6-13); also HtmlParser.t
    out,                      \* tokens returned so far by HtmlTokenizer::next
    nones,                    \* number of calls of next() that returned None
    tstatus,                  \* "run" | "panic": a standalone tokenizer
    mode,                     \* HtmlParser.mode
    original_mode,            \* HtmlParser.original_mode
    stack_of_open_elements,   \* HtmlParser.stack_of_open_elements (node ids)
    nodes,                    \* every Node allocated so far; nodes[1] is the Document
    token,                    \* the local `token` of construct_tree
    pstatus,                  \* "idle" | "start" | "run" | "returned" | "panic"
    css,                      \* CssParser: the peekable token stream and its result
    obj,                      \* a LayoutObject taken through its operations one by one
    page,                     \* Page (page.rs:28-34) and what clicked returned
    src                       \* how the input was built (never read by the program)

vars == <<t, out, nones, tstatus, mode, original_mode, stack_of_open_elements,
          nodes, token, pstatus, css, obj, page, src>>

-----------------------------------------------------------------------------
(* Characters *)

LowerSeq == <<"a","b","c","d","e","f","g","h","i","j","k","l","m",
              "n","o","p","q","r","s","t","u","v","w","x","y","z">>
UpperSeq == <<"A","B","C","D","E","F","G","H","I","J","K","L","M",
              "N","O","P","Q","R","S","T","U","V","W","X","Y","Z">>

is_ascii_uppercase(c) == \E i \in 1..26 : UpperSeq[i] = c
is_ascii_lowercase(c) == \E i \in 1..26 : LowerSeq[i] = c
is_ascii_alphabetic(c) == is_ascii_uppercase(c) \/ is_ascii_lowercase(c)

to_ascii_lowercase_Same(c) == c
to_ascii_lowercase(c) ==
    IF is_ascii_uppercase(c)
    THEN LowerSeq[CHOOSE i \in 1..26 : UpperSeq[i] = c]
    ELSE c

RECURSIVE Concat(_)
Concat(ss) == IF ss = <<>> THEN <<>> ELSE Head(ss) \o Concat(Tail(ss))

Prefixes(s) == { SubSeq(s, 1, n) : n \in 0..Len(s) }

-----------------------------------------------------------------------------
(* HtmlToken (token.rs:463-478) and Attribute (attribute.rs:6-10) *)

NoToken == [type |-> "None", tag |-> <<>>, self_closing |-> FALSE,
            attributes |-> <<>>, c |-> ""]
StartTag(tag, sc, attrs) ==
    [type |-> "StartTag", tag |-> tag, self_closing |-> sc,
     attributes |-> attrs, c |-> ""]
EndTag(tag) ==
    [type |-> "EndTag", tag |-> tag, self_closing |-> FALSE,
     attributes |-> <<>>, c |-> ""]
Char(c) ==
    [type |-> "Char", tag |-> <<>>, self_closing |-> FALSE,
     attributes |-> <<>>, c |-> c]
Eof == [type |-> "Eof", tag |-> <<>>, self_closing |-> FALSE,
        attributes |-> <<>>, c |-> ""]

Attribute(name, value) == [name |-> name, value |-> value]
AttributeDefault == Attribute(<<>>, <<>>)

-----------------------------------------------------------------------------
(* HtmlTokenizer *)

HtmlTokenizerNew(html) ==
    [state |-> "Data", pos |-> 0, reconsume |-> FALSE,
     latest_token |-> NoToken, input |-> html, buf |-> <<>>]

is_eof(tz) == tz.pos > Len(tz.input)

(* What one pass through the body of the loop of next() yields: go round   *)
(* again, return a token, or panic.                                        *)
Cont(tz)     == [t |-> tz, ret |-> NoToken, done |-> FALSE, panic |-> "no"]
Ret(tz, tok) == [t |-> tz, ret |-> tok, done |-> TRUE, panic |-> "no"]
\* a failed assert!/panic! of the helper methods
Panic(tz)    == [t |-> tz, ret |-> NoToken, done |-> TRUE,
                 panic |-> "assertion_failed"]
\* self.input[i] with i outside the vector
IndexPanic(tz) == [t |-> tz, ret |-> NoToken, done |-> TRUE,
                   panic |-> "index_out_of_bounds"]

IsTag(tok) == tok.type \in {"StartTag", "EndTag"}

create_start_tag(tz) == [tz EXCEPT !.latest_token = StartTag(<<>>, FALSE, <<>>)]
create_end_tag(tz)   == [tz EXCEPT !.latest_token = EndTag(<<>>)]

\* append_tag_name, start_new_attribute, append_attribute and
\* set_self_closing_flag panic unless this holds of latest_token.
CanAppendTagName(tz) == IsTag(tz.latest_token)
CanTouchStartTag(tz) == tz.latest_token.type = "StartTag"

append_tag_name(tz, c) ==
    [tz EXCEPT !.latest_token.tag = Append(@, c)]

start_new_attribute(tz) ==
    [tz EXCEPT !.latest_token.attributes = Append(@, AttributeDefault)]

CanAppendAttribute(tz) ==
    CanTouchStartTag(tz) /\ Len(tz.latest_token.attributes) > 0

append_attribute(tz, c, is_name) ==
    LET len == Len(tz.latest_token.attributes) IN
    IF is_name
    THEN [tz EXCEPT !.latest_token.attributes[len].name = Append(@, c)]
    ELSE [tz EXCEPT !.latest_token.attributes[len].value = Append(@, c)]

append_attribute_name(tz, c)  == append_attribute(tz, c, TRUE)
append_attribute_value(tz, c) == append_attribute(tz, c, FALSE)

set_self_closing_flag(tz) == [tz EXCEPT !.latest_token.self_closing = TRUE]

\* take_latest_token that puts the tokenizer into ScriptData after a
\* <script> start tag
take_latest_token_Switching(tz) ==
    IF tz.latest_token.type = "None"
    THEN Panic(tz)
    ELSE Ret([tz EXCEPT !.latest_token = NoToken,
                        !.state = IF tz.latest_token.type = "StartTag"
                                     /\ tz.latest_token.tag
                                          = <<"s", "c", "r", "i", "p", "t">>
                                  THEN "ScriptData" ELSE @],
             tz.latest_token)

\* take_latest_token: asserts that there is a token, returns it and leaves None
take_latest_token(tz) ==
    IF tz.latest_token.type = "None"
    THEN Panic(tz)
    ELSE Ret([tz EXCEPT !.latest_token = NoToken], tz.latest_token)

SetState(tz, s) == [tz EXCEPT !.state = s]
Reconsume(tz, s) == [tz EXCEPT !.state = s, !.reconsume = TRUE]

-----------------------------------------------------------------------------
(* HtmlTokenizer::next, one operator per State; c is the consumed character *)

DataState(tz, c) ==
    IF c = "<" THEN Cont(SetState(tz, "TagOpen"))
    ELSE IF is_eof(tz) THEN Ret(tz, Eof)
    ELSE Ret(tz, Char(c))

TagOpenState(tz, c) ==
    IF c = "/" THEN Cont(SetState(tz, "EndTagOpen"))
    ELSE IF is_ascii_alphabetic(c)
         THEN Cont(create_start_tag(Reconsume(tz, "TagName")))
    ELSE IF is_eof(tz) THEN Ret(tz, Eof)
    ELSE Cont(Reconsume(tz, "Data"))

EndTagOpenState(tz, c) ==
    IF is_eof(tz) THEN Ret(tz, Eof)
    ELSE IF is_ascii_alphabetic(c)
         THEN Cont(create_end_tag(Reconsume(tz, "TagName")))
    ELSE Cont(tz)

TagNameState(tz, c) ==
    IF c = " " THEN Cont(SetState(tz, "BeforeAttributeName"))
    ELSE
      \* the `/` branch has no `continue`: control falls through to the rest
      LET tz1 == IF c = "/" THEN SetState(tz, "SelfClosingStartTag") ELSE tz IN
      IF c = ">" THEN take_latest_token(SetState(tz1, "Data"))
      ELSE IF is_ascii_uppercase(c)
           THEN IF CanAppendTagName(tz1)
                THEN Cont(append_tag_name(tz1, to_ascii_lowercase(c)))
                ELSE Panic(tz1)
      ELSE IF is_eof(tz1) THEN Ret(tz1, Eof)
      ELSE IF CanAppendTagName(tz1)
           THEN Cont(append_tag_name(tz1, c))
           ELSE Panic(tz1)

BeforeAttributeNameState(tz, c) ==
    IF c = "/" \/ c = ">" \/ is_eof(tz)
    THEN Cont(Reconsume(tz, "AfterAttributeName"))
    ELSE IF CanTouchStartTag(tz)
         THEN Cont(start_new_attribute(Reconsume(tz, "AttributeName")))
         ELSE Panic(tz)

AttributeNameState(tz, c) ==
    IF c = " " \/ c = "/" \/ c = ">" \/ is_eof(tz)
    THEN Cont(Reconsume(tz, "AfterAttributeName"))
    ELSE IF c = "=" THEN Cont(SetState(tz, "BeforeAttributeValue"))
    ELSE IF ~CanAppendAttribute(tz) THEN Panic(tz)
    ELSE IF is_ascii_uppercase(c)
         THEN Cont(append_attribute_name(tz, to_ascii_lowercase(c)))
    ELSE Cont(append_attribute_name(tz, c))

AfterAttributeNameState(tz, c) ==
    IF c = " " THEN Cont(tz)
    ELSE IF c = "/" THEN Cont(SetState(tz, "SelfClosingStartTag"))
    ELSE IF c = "=" THEN Cont(SetState(tz, "BeforeAttributeValue"))
    ELSE IF c = ">" THEN take_latest_token(SetState(tz, "Data"))
    ELSE IF is_eof(tz) THEN Ret(tz, Eof)
    ELSE IF CanTouchStartTag(tz)
         THEN Cont(start_new_attribute(Reconsume(tz, "AttributeName")))
         ELSE Panic(tz)

BeforeAttributeValueState(tz, c) ==
    IF c = " " THEN Cont(tz)
    ELSE IF c = "\"" THEN Cont(SetState(tz, "AttributeValueDoubleQuoted"))
    ELSE IF c = "'" THEN Cont(SetState(tz, "AttributeValueSingleQuoted"))
    ELSE Cont(Reconsume(tz, "AttributeValueUnquoted"))

AttributeValueDoubleQuotedState(tz, c) ==
    IF c = "\"" THEN Cont(SetState(tz, "AfterAttributeValueQuoted"))
    ELSE IF is_eof(tz) THEN Ret(tz, Eof)
    ELSE IF CanAppendAttribute(tz) THEN Cont(append_attribute_value(tz, c))
    ELSE Panic(tz)

AttributeValueSingleQuotedState(tz, c) ==
    IF c = "'" THEN Cont(SetState(tz, "AfterAttributeValueQuoted"))
    ELSE IF is_eof(tz) THEN Ret(tz, Eof)
    ELSE IF CanAppendAttribute(tz) THEN Cont(append_attribute_value(tz, c))
    ELSE Panic(tz)

AttributeValueUnquotedState(tz, c) ==
    IF c = " " THEN Cont(SetState(tz, "BeforeAttributeName"))
    ELSE IF c = ">" THEN take_latest_token(SetState(tz, "Data"))
    ELSE IF is_eof(tz) THEN Ret(tz, Eof)
    ELSE IF CanAppendAttribute(tz) THEN Cont(append_attribute_value(tz, c))
    ELSE Panic(tz)

AfterAttributeValueQuotedState(tz, c) ==
    IF c = " " THEN Cont(SetState(tz, "BeforeAttributeName"))
    ELSE IF c = "/" THEN Cont(SetState(tz, "SelfClosingStartTag"))
    ELSE IF c = ">" THEN take_latest_token(SetState(tz, "Data"))
    ELSE IF is_eof(tz) THEN Ret(tz, Eof)
    ELSE Cont(Reconsume(tz, "BeforeAttributeName"))

\* the `>` branch without set_self_closing_flag
SelfClosingStartTagState_NoFlag(tz, c) ==
    IF c = ">"
    THEN IF CanTouchStartTag(tz)
         THEN take_latest_token(SetState(tz, "Data"))
         ELSE Panic(tz)
    ELSE IF is_eof(tz) THEN Ret(tz, Eof)
    ELSE Cont(tz)

SelfClosingStartTagState(tz, c) ==
    IF c = ">"
    THEN IF CanTouchStartTag(tz)
         THEN take_latest_token(SetState(set_self_closing_flag(tz), "Data"))
         ELSE Panic(tz)
    ELSE IF is_eof(tz) THEN Ret(tz, Eof)
    ELSE Cont(tz)

ScriptDataState(tz, c) ==
    IF c = "<" THEN Cont(SetState(tz, "ScriptDataLessThanSign"))
    ELSE IF is_eof(tz) THEN Ret(tz, Eof)
    ELSE Ret(tz, Char(c))

ScriptDataLessThanSignState(tz, c) ==
    IF c = "/"
    THEN Cont([tz EXCEPT !.buf = <<>>, !.state = "ScriptDataEndTagOpen"])
    ELSE Ret(Reconsume(tz, "ScriptData"), Char("<"))

ScriptDataEndTagOpenState(tz, c) ==
    IF is_ascii_alphabetic(c)
    THEN Cont(create_end_tag(Reconsume(tz, "ScriptDataEndTagName")))
    ELSE Ret(Reconsume(tz, "ScriptData"), Char("<"))

ScriptDataEndTagNameState(tz, c) ==
    IF c = ">" THEN take_latest_token(SetState(tz, "Data"))
    ELSE IF is_ascii_alphabetic(c)
         THEN IF CanAppendTagName(tz)
              THEN Cont(append_tag_name([tz EXCEPT !.buf = Append(@, c)],
                                        to_ascii_lowercase(c)))
              ELSE Panic(tz)
    ELSE Cont([tz EXCEPT !.state = "TemporaryBuffer",
                         !.buf = Append(<<"<", "/">> \o @, c)])

TemporaryBufferState(tz, c) ==
    LET tz1 == [tz EXCEPT !.reconsume = TRUE] IN
    IF Len(tz1.buf) = 0 THEN Cont(SetState(tz1, "ScriptData"))
    ELSE Ret([tz1 EXCEPT !.buf = Tail(@)], Char(Head(tz1.buf)))

StateStep(tz, c) ==
    CASE tz.state = "Data" -> DataState(tz, c)
      [] tz.state = "TagOpen" -> TagOpenState(tz, c)
      [] tz.state = "EndTagOpen" -> EndTagOpenState(tz, c)
      [] tz.state = "TagName" -> TagNameState(tz, c)
      [] tz.state = "BeforeAttributeName" -> BeforeAttributeNameState(tz, c)
      [] tz.state = "AttributeName" -> AttributeNameState(tz, c)
      [] tz.state = "AfterAttributeName" -> AfterAttributeNameState(tz, c)
      [] tz.state = "BeforeAttributeValue" -> BeforeAttributeValueState(tz, c)
      [] tz.state = "AttributeValueDoubleQuoted" ->
             AttributeValueDoubleQuotedState(tz, c)
      [] tz.state = "AttributeValueSingleQuoted" ->
             AttributeValueSingleQuotedState(tz, c)
      [] tz.state = "AttributeValueUnquoted" -> AttributeValueUnquotedState(tz, c)
      [] tz.state = "AfterAttributeValueQuoted" ->
             AfterAttributeValueQuotedState(tz, c)
      [] tz.state = "SelfClosingStartTag" -> SelfClosingStartTagState(tz, c)
      [] tz.state = "ScriptData" -> ScriptDataState(tz, c)
      [] tz.state = "ScriptDataLessThanSign" -> ScriptDataLessThanSignState(tz, c)
      [] tz.state = "ScriptDataEndTagOpen" -> ScriptDataEndTagOpenState(tz, c)
      [] tz.state = "ScriptDataEndTagName" -> ScriptDataEndTagNameState(tz, c)
      [] tz.state = "TemporaryBuffer" -> TemporaryBufferState(tz, c)

\* consume_next_input reads input[pos] and reconsume_input reads input[pos - 1];
\* an index outside the vector is a panic (index out of bounds).
ReadIndex(tz) == IF tz.reconsume THEN tz.pos - 1 ELSE tz.pos
InBounds(tz) == 0 <= ReadIndex(tz) /\ ReadIndex(tz) < Len(tz.input)

consume_next_input(tz) == [tz EXCEPT !.pos = @ + 1]
reconsume_input(tz)    == [tz EXCEPT !.reconsume = FALSE]

RECURSIVE NextLoop(_)
NextLoop(tz) ==
    IF ~InBounds(tz) THEN IndexPanic(tz)
    ELSE LET c  == tz.input[ReadIndex(tz) + 1]
             tz1 == IF tz.reconsume THEN reconsume_input(tz)
                                    ELSE consume_next_input(tz)
             r  == StateStep(tz1, c)
         IN IF r.done THEN r ELSE NextLoop(r.t)

HtmlTokenizerNext_Restart(tz) ==
    IF tz.pos >= Len(tz.input) THEN Ret([tz EXCEPT !.pos = 0], NoToken)
    ELSE NextLoop(tz)

\* HtmlTokenizer::next: ret is the token returned (NoToken for None)
HtmlTokenizerNext(tz) ==
    IF tz.pos >= Len(tz.input) THEN Ret(tz, NoToken) ELSE NextLoop(tz)


-----------------------------------------------------------------------------
(* DOM nodes.  A node is an entry of `nodes`, named by its index; 0 is None.*)
(* first_child and next_sibling are owning links (Rc), parent, last_child  *)
(* and previous_sibling are back-references (Weak).                         *)

NewNode(kind, tag, attributes, text) ==
    [kind |-> kind, tag |-> tag, attributes |-> attributes, text |-> text,
     parent |-> 0, first_child |-> 0, last_child |-> 0,
     previous_sibling |-> 0, next_sibling |-> 0]

DocumentId == 1
DocumentNode == NewNode("Document", <<>>, <<>>, <<>>)

TagHtml   == <<"h", "t", "m", "l">>
TagHead   == <<"h", "e", "a", "d">>
TagBody   == <<"b", "o", "d", "y">>
TagStyle  == <<"s", "t", "y", "l", "e">>
TagScript == <<"s", "c", "r", "i", "p", "t">>
TagP      == <<"p">>
TagH1     == <<"h", "1">>
TagH2     == <<"h", "2">>
TagA      == <<"a">>
TagSpan   == <<"s", "p", "a", "n">>

\* ElementKind::from_str succeeds exactly on the closed set of element kinds
ElementKinds ==
    {TagHtml, TagHead, TagBody, TagStyle, TagScript,
     TagP, TagH1, TagH2, TagA, TagSpan}
ElementKindFromStrOk(tag) == tag \in ElementKinds

\* Node::element_kind: Some(kind) for an Element, None otherwise
HasElementKind(node, kind) == node.kind = "Element" /\ node.tag = kind

-----------------------------------------------------------------------------
(* HtmlParser.  ps is the parser with the local `token` of construct_tree  *)
(* and the outcome so far: "run", "returned" or a panic.                    *)

HtmlParserNew(tz) ==
    [mode |-> "Initial", original_mode |-> "Initial", stack |-> <<>>,
     nodes |-> <<DocumentNode>>, t |-> tz, token |-> NoToken, status |-> "run"]

Running(ps) == ps.status = "run"

\* token = self.t.next()
NextToken(ps) ==
    IF ~Running(ps) THEN ps
    ELSE LET r == HtmlTokenizerNext(ps.t) IN
         IF r.panic # "no"
         THEN [ps EXCEPT !.t = r.t, !.status = "panic_tokenizer"]
         ELSE [ps EXCEPT !.t = r.t, !.token = r.ret]

SetMode(ps, m) == IF ~Running(ps) THEN ps ELSE [ps EXCEPT !.mode = m]
Return(ps) == IF ~Running(ps) THEN ps ELSE [ps EXCEPT !.status = "returned"]

create_element(tag, attributes) == NewNode("Element", tag, attributes, <<>>)
create_char(c) == NewNode("Text", <<>>, <<>>, <<c>>)

\* the open node: the top of the stack, or the Document
CurrentNode(ps) ==
    IF ps.stack = <<>> THEN DocumentId ELSE ps.stack[Len(ps.stack)]

\* the loop of insert_element that looks for the last sibling: it asks the
\* NEW node for its next sibling, which is None, so it stops at once and
\* last_sibling stays the first child
FindLastSibling(node, first_child) ==
    IF node.next_sibling = 0 THEN first_child ELSE node.next_sibling

insert_element(ps, tag, attributes) ==
    IF ~Running(ps) THEN ps
    ELSE
    LET current == CurrentNode(ps)
        id      == Len(ps.nodes) + 1
        node    == create_element(tag, attributes)
        first   == ps.nodes[current].first_child
        ns0     == Append(ps.nodes, node)
        ns1     == IF first # 0
                   THEN LET last_sibling == FindLastSibling(node, first) IN
                        [ns0 EXCEPT ![last_sibling].next_sibling = id,
                                    ![id].previous_sibling = last_sibling]
                   ELSE [ns0 EXCEPT ![current].first_child = id]
        ns2     == [ns1 EXCEPT ![current].last_child = id, ![id].parent = current]
    IN [ps EXCEPT !.nodes = ns2, !.stack = Append(@, id)]

\* insert_char without set_last_child
insert_char_NoLastChild(ps, c) ==
    IF ~Running(ps) \/ ps.stack = <<>> THEN ps
    ELSE
    LET current == ps.stack[Len(ps.stack)] IN
    IF ps.nodes[current].kind = "Text"
    THEN [ps EXCEPT !.nodes[current].text = Append(@, c)]
    ELSE IF c = "\n" \/ c = " " THEN ps
    ELSE
    LET id    == Len(ps.nodes) + 1
        first == ps.nodes[current].first_child
        ns0   == Append(ps.nodes, create_char(c))
        ns1   == IF first # 0
                 THEN [ns0 EXCEPT ![first].next_sibling = id]
                 ELSE [ns0 EXCEPT ![current].first_child = id]
        ns2   == [ns1 EXCEPT ![id].parent = current]
    IN [ps EXCEPT !.nodes = ns2, !.stack = Append(@, id)]

insert_char(ps, c) ==
    IF ~Running(ps) \/ ps.stack = <<>> THEN ps
    ELSE
    LET current == ps.stack[Len(ps.stack)] IN
    IF ps.nodes[current].kind = "Text"
    THEN [ps EXCEPT !.nodes[current].text = Append(@, c)]
    ELSE IF c = "\n" \/ c = " " THEN ps
    ELSE
    LET id    == Len(ps.nodes) + 1
        first == ps.nodes[current].first_child
        ns0   == Append(ps.nodes, create_char(c))
        ns1   == IF first # 0
                 THEN [ns0 EXCEPT ![first].next_sibling = id]
                 ELSE [ns0 EXCEPT ![current].first_child = id]
        ns2   == [ns1 EXCEPT ![current].last_child = id, ![id].parent = current]
    IN [ps EXCEPT !.nodes = ns2, !.stack = Append(@, id)]

contain_in_stack(ps, element_kind) ==
    \E i \in 1..Len(ps.stack) : HasElementKind(ps.nodes[ps.stack[i]], element_kind)

\* pop_current_node returns whether it popped
CanPopCurrentNode(ps, element_kind) ==
    /\ ps.stack # <<>>
    /\ HasElementKind(ps.nodes[ps.stack[Len(ps.stack)]], element_kind)

pop_current_node(ps, element_kind) ==
    IF Running(ps) /\ CanPopCurrentNode(ps, element_kind)
    THEN [ps EXCEPT !.stack = SubSeq(@, 1, Len(@) - 1)]
    ELSE ps

PopLoop_Keeps(ns, stack, element_kind) == stack

RECURSIVE PopLoop(_, _, _)
PopLoop(ns, stack, element_kind) ==
    IF stack = <<>> THEN stack
    ELSE LET current == stack[Len(stack)]
             rest    == SubSeq(stack, 1, Len(stack) - 1)
         IN IF HasElementKind(ns[current], element_kind)
            THEN rest
            ELSE PopLoop(ns, rest, element_kind)

pop_until(ps, element_kind) ==
    IF ~Running(ps) THEN ps
    ELSE IF ~contain_in_stack(ps, element_kind)
         THEN [ps EXCEPT !.status = "panic_pop_until"]
    ELSE [ps EXCEPT !.stack = PopLoop(ps.nodes, @, element_kind)]

-----------------------------------------------------------------------------
(* construct_tree: one pass of the loop per insertion mode, on token ps.token *)

IsSpace(tok) == tok.type = "Char" /\ (tok.c = " " \/ tok.c = "\n")
IsStart(tok, tag) == tok.type = "StartTag" /\ tok.tag = tag
IsEnd(tok, tag)   == tok.type = "EndTag" /\ tok.tag = tag

InitialMode_KeepsChars(ps) == SetMode(ps, "BeforeHtml")
InitialMode(ps) ==
    IF ps.token.type = "Char" THEN NextToken(ps)
    ELSE SetMode(ps, "BeforeHtml")

BeforeHtmlMode(ps) ==
    LET tok == ps.token IN
    IF IsSpace(tok) THEN NextToken(ps)
    ELSE IF IsStart(tok, TagHtml)
         THEN NextToken(SetMode(insert_element(ps, tok.tag, tok.attributes),
                                "BeforeHead"))
    ELSE IF tok.type = "Eof" THEN Return(ps)
    ELSE SetMode(insert_element(ps, TagHtml, <<>>), "BeforeHead")

\* BeforeHead that does not insert the implied head element
BeforeHeadMode_NoImpliedHead(ps) ==
    LET tok == ps.token IN
    IF IsSpace(tok) THEN NextToken(ps)
    ELSE IF IsStart(tok, TagHead)
         THEN NextToken(SetMode(insert_element(ps, tok.tag, tok.attributes),
                                "InHead"))
    ELSE IF tok.type = "Eof" THEN Return(ps)
    ELSE SetMode(ps, "InHead")

BeforeHeadMode(ps) ==
    LET tok == ps.token IN
    IF IsSpace(tok) THEN NextToken(ps)
    ELSE IF IsStart(tok, TagHead)
         THEN NextToken(SetMode(insert_element(ps, tok.tag, tok.attributes),
                                "InHead"))
    ELSE IF tok.type = "Eof" THEN Return(ps)
    ELSE SetMode(insert_element(ps, TagHead, <<>>), "InHead")

InHeadMode(ps) ==
    LET tok == ps.token IN
    IF IsSpace(tok) THEN NextToken(insert_char(ps, tok.c))
    ELSE IF IsStart(tok, TagStyle) \/ IsStart(tok, TagScript)
         THEN LET ps1 == insert_element(ps, tok.tag, tok.attributes) IN
              NextToken([ps1 EXCEPT !.original_mode = ps1.mode, !.mode = "Text"])
    ELSE IF IsStart(tok, TagBody)
         THEN SetMode(pop_until(ps, TagHead), "AfterHead")
    ELSE IF tok.type = "StartTag" /\ ElementKindFromStrOk(tok.tag)
         THEN SetMode(pop_until(ps, TagHead), "AfterHead")
    ELSE IF IsEnd(tok, TagHead)
         THEN pop_until(NextToken(SetMode(ps, "AfterHead")), TagHead)
    ELSE IF tok.type = "Eof" THEN Return(ps)
    ELSE NextToken(ps)

AfterHeadMode(ps) ==
    LET tok == ps.token IN
    IF IsSpace(tok) THEN NextToken(insert_char(ps, tok.c))
    ELSE IF IsStart(tok, TagBody)
         THEN SetMode(NextToken(insert_element(ps, tok.tag, tok.attributes)),
                      "InBody")
    ELSE IF tok.type = "Eof" THEN Return(ps)
    ELSE SetMode(insert_element(ps, TagBody, <<>>), "InBody")

InBodyElements == {TagP, TagH1, TagH2, TagA, TagSpan}

InBodyMode(ps) ==
    LET tok == ps.token IN
    CASE tok.type = "StartTag" ->
            IF tok.tag \in InBodyElements
            THEN NextToken(insert_element(ps, tok.tag, tok.attributes))
            ELSE NextToken(ps)
      [] tok.type = "EndTag" ->
            IF tok.tag = TagBody
            THEN LET ps1 == NextToken(SetMode(ps, "AfterBody")) IN
                 IF ~contain_in_stack(ps1, TagBody) THEN ps1
                 ELSE pop_until(ps1, TagBody)
            ELSE IF tok.tag = TagHtml
            THEN IF CanPopCurrentNode(ps, TagBody)
                 THEN LET ps1 == SetMode(pop_current_node(ps, TagBody), "AfterBody") IN
                      IF CanPopCurrentNode(ps1, TagHtml)
                      THEN pop_current_node(ps1, TagHtml)
                      ELSE [ps1 EXCEPT !.status = "panic_assert_html"]
                 ELSE NextToken(ps)
            ELSE IF tok.tag \in InBodyElements
            THEN pop_until(NextToken(ps), tok.tag)
            ELSE NextToken(ps)
      [] tok.type = "Eof" -> Return(ps)
      [] tok.type = "Char" -> NextToken(insert_char(ps, tok.c))

TextMode_LeavesOpen(ps) ==
    LET tok == ps.token IN
    IF tok.type = "Eof" THEN Return(ps)
    ELSE IF IsEnd(tok, TagStyle) \/ IsEnd(tok, TagScript)
         THEN NextToken(SetMode(ps, ps.original_mode))
    ELSE IF tok.type = "Char" THEN NextToken(insert_char(ps, tok.c))
    ELSE SetMode(ps, ps.original_mode)

TextMode(ps) ==
    LET tok == ps.token IN
    IF tok.type = "Eof" THEN Return(ps)
    ELSE IF IsEnd(tok, TagStyle)
         THEN NextToken(SetMode(pop_until(ps, TagStyle), ps.original_mode))
    ELSE IF IsEnd(tok, TagScript)
         THEN NextToken(SetMode(pop_until(ps, TagScript), ps.original_mode))
    ELSE IF tok.type = "Char" THEN NextToken(insert_char(ps, tok.c))
    ELSE SetMode(ps, ps.original_mode)

AfterBodyMode_Bounces(ps) ==
    LET tok == ps.token IN
    IF tok.type = "Char" THEN NextToken(ps)
    ELSE IF tok.type = "Eof" THEN Return(ps)
    ELSE SetMode(ps, "InBody")

AfterBodyMode(ps) ==
    LET tok == ps.token IN
    IF tok.type = "Char" THEN NextToken(ps)
    ELSE IF IsEnd(tok, TagHtml) THEN NextToken(SetMode(ps, "AfterAfterBody"))
    ELSE IF tok.type = "Eof" THEN Return(ps)
    ELSE SetMode(ps, "InBody")

AfterAfterBodyMode_StartsOver(ps) ==
    LET tok == ps.token IN
    IF tok.type = "Char" THEN NextToken(ps)
    ELSE IF tok.type = "Eof" THEN Return(ps)
    ELSE SetMode(ps, "AfterHead")

AfterAfterBodyMode(ps) ==
    LET tok == ps.token IN
    IF tok.type = "Char" THEN NextToken(ps)
    ELSE IF tok.type = "Eof" THEN Return(ps)
    ELSE SetMode(ps, "InBody")

ModeStep(ps) ==
    CASE ps.mode = "Initial"        -> InitialMode(ps)
      [] ps.mode = "BeforeHtml"     -> BeforeHtmlMode(ps)
      [] ps.mode = "BeforeHead"     -> BeforeHeadMode(ps)
      [] ps.mode = "InHead"         -> InHeadMode(ps)
      [] ps.mode = "AfterHead"      -> AfterHeadMode(ps)
      [] ps.mode = "InBody"         -> InBodyMode(ps)
      [] ps.mode = "Text"           -> TextMode(ps)
      [] ps.mode = "AfterBody"      -> AfterBodyMode(ps)
      [] ps.mode = "AfterAfterBody" -> AfterAfterBodyMode(ps)

\* `while let Some(ref t) = token { ... }  self.window.clone()`
RECURSIVE ConstructTreeLoop(_)
ConstructTreeLoop(ps) ==
    IF ~Running(ps) THEN ps
    ELSE IF ps.token = NoToken THEN Return(ps)
    ELSE ConstructTreeLoop(ModeStep(ps))

\* HtmlParser::new(HtmlTokenizer::new(html)).construct_tree()
ConstructTree(html) ==
    ConstructTreeLoop(NextToken(HtmlParserNew(HtmlTokenizerNew(html))))

-----------------------------------------------------------------------------
(* CssToken and the CSS object model (cssom.rs:171-240) *)

CssTok(type, v) == [type |-> type, v |-> v]
HashToken(v)   == CssTok("HashToken", v)     \* the value keeps the leading `#`
Delim(c)       == CssTok("Delim", <<c>>)
Ident(v)       == CssTok("Ident", v)
AtKeyword(v)   == CssTok("AtKeyword", v)
StringToken(v) == CssTok("StringToken", v)
Number(v)      == CssTok("Number", v)
OpenCurly      == CssTok("OpenCurly", <<>>)
CloseCurly     == CssTok("CloseCurly", <<>>)
Colon          == CssTok("Colon", <<>>)
SemiColon      == CssTok("SemiColon", <<>>)
NoCssToken     == CssTok("None", <<>>)

TypeSelector(v)  == [kind |-> "TypeSelector", v |-> v]
ClassSelector(v) == [kind |-> "ClassSelector", v |-> v]
IdSelector(v)    == [kind |-> "IdSelector", v |-> v]
UnknownSelector  == [kind |-> "UnknownSelector", v |-> <<>>]

Declaration(property, value) == [property |-> property, value |-> value]
QualifiedRule(selector, declarations) ==
    [selector |-> selector, declarations |-> declarations]
QualifiedRuleDefault == QualifiedRule(TypeSelector(<<>>), <<>>)

-----------------------------------------------------------------------------
(* CssParser.  cs = [tokens, pos, status]: the peekable token stream, with  *)
(* status "run", "panic" (panic!/expect) or "hang" (a loop that never ends) *)

CssRunning(cs) == cs.status = "run"
CssPeek(cs) == IF cs.pos < Len(cs.tokens) THEN cs.tokens[cs.pos + 1] ELSE NoCssToken
\* self.t.next(): past the end it returns None and stays there
CssAdvance(cs) == IF cs.pos < Len(cs.tokens) THEN [cs EXCEPT !.pos = @ + 1] ELSE cs
CssFail(cs, why) == [cs EXCEPT !.status = why]

\* while self.t.peek() != Some(&CssToken::OpenCurly) { self.t.next(); }
SkipUntilOpenCurly(cs) ==
    IF \E i \in (cs.pos + 1)..Len(cs.tokens) : cs.tokens[i] = OpenCurly
    THEN [cs EXCEPT !.pos =
            (CHOOSE i \in (cs.pos + 1)..Len(cs.tokens) :
                /\ cs.tokens[i] = OpenCurly
                /\ \A j \in (cs.pos + 1)..(i - 1) : cs.tokens[j] # OpenCurly) - 1]
    ELSE CssFail(cs, "hang")

\* consume_ident: [cs, v]
consume_ident(cs) ==
    LET tok == CssPeek(cs) IN
    IF tok.type = "Ident" THEN [cs |-> CssAdvance(cs), v |-> tok.v]
    ELSE [cs |-> CssFail(CssAdvance(cs), "panic"), v |-> <<>>]

\* consume_component_value: [cs, v]
consume_component_value(cs) ==
    LET tok == CssPeek(cs) IN
    IF tok = NoCssToken THEN [cs |-> CssFail(cs, "panic"), v |-> NoCssToken]
    ELSE [cs |-> CssAdvance(cs), v |-> tok]

\* v[1..] of a String: the characters after the first (a panic on "")
SliceFrom0(v) == v
SliceFrom1(v) == Tail(v)

\* consume_selector: [cs, selector]
consume_selector(cs) ==
    LET tok == CssPeek(cs)
        cs1 == CssAdvance(cs)
    IN
    CASE tok = NoCssToken ->
            [cs |-> CssFail(cs, "panic"), selector |-> UnknownSelector]
      [] tok.type = "HashToken" ->
            IF tok.v = <<>>
            THEN [cs |-> CssFail(cs1, "panic"), selector |-> UnknownSelector]
            ELSE [cs |-> cs1, selector |-> IdSelector(SliceFrom1(tok.v))]
      [] tok.type = "Delim" ->
            IF tok.v = <<".">>
            THEN LET r == consume_ident(cs1) IN
                 [cs |-> r.cs, selector |-> ClassSelector(r.v)]
            ELSE [cs |-> CssFail(cs1, "panic"), selector |-> UnknownSelector]
      [] tok.type = "Ident" ->
            [cs |-> IF CssPeek(cs1) = Colon THEN SkipUntilOpenCurly(cs1) ELSE cs1,
             selector |-> TypeSelector(tok.v)]
      [] tok.type = "AtKeyword" ->
            [cs |-> SkipUntilOpenCurly(cs1), selector |-> UnknownSelector]
      [] OTHER ->
            [cs |-> CssAdvance(cs1), selector |-> UnknownSelector]

\* consume_declaration: [cs, some, declaration]
consume_declaration(cs) ==
    LET none(c) == [cs |-> c, some |-> FALSE, declaration |-> Declaration(<<>>, Ident(<<>>))]
    IN
    IF CssPeek(cs) = NoCssToken THEN none(cs)
    ELSE LET p == consume_ident(cs) IN
         IF ~CssRunning(p.cs) THEN none(p.cs)
         ELSE IF CssPeek(p.cs) # Colon THEN none(CssAdvance(p.cs))
         ELSE LET v == consume_component_value(CssAdvance(p.cs)) IN
              IF ~CssRunning(v.cs) THEN none(v.cs)
              ELSE [cs |-> v.cs, some |-> TRUE,
                    declaration |-> Declaration(p.v, v.v)]

\* consume_list_of_declarations: [cs, declarations]
RECURSIVE DeclarationsLoop(_, _)
DeclarationsLoop(cs, declarations) ==
    LET tok == CssPeek(cs) IN
    IF ~CssRunning(cs) \/ tok = NoCssToken
    THEN [cs |-> cs, declarations |-> declarations]
    ELSE IF tok = CloseCurly
         THEN [cs |-> CssAdvance(cs), declarations |-> declarations]
    ELSE IF tok = SemiColon THEN DeclarationsLoop(CssAdvance(cs), declarations)
    ELSE IF tok.type = "Ident"
         THEN LET d == consume_declaration(cs) IN
              DeclarationsLoop(d.cs, IF d.some THEN Append(declarations, d.declaration)
                                               ELSE declarations)
    ELSE DeclarationsLoop(CssAdvance(cs), declarations)

consume_list_of_declarations(cs) == DeclarationsLoop(cs, <<>>)

\* consume_qualified_rule: [cs, some, rule]
RECURSIVE QualifiedRuleLoop(_, _)
QualifiedRuleLoop(cs, rule) ==
    LET tok == CssPeek(cs) IN
    IF ~CssRunning(cs) \/ tok = NoCssToken
    THEN [cs |-> cs, some |-> FALSE, rule |-> rule]
    ELSE IF tok = OpenCurly
         THEN LET d == consume_list_of_declarations(CssAdvance(cs)) IN
              [cs |-> d.cs, some |-> CssRunning(d.cs),
               rule |-> [rule EXCEPT !.declarations = d.declarations]]
    ELSE LET r == consume_selector(cs) IN
         QualifiedRuleLoop(r.cs, [rule EXCEPT !.selector = r.selector])

consume_qualified_rule(cs) == QualifiedRuleLoop(cs, QualifiedRuleDefault)

-----------------------------------------------------------------------------
(* The style sheet of a page: get_style_content (dom/api.rs), CssTokenizer  *)
(* and parse_stylesheet                                                     *)

\* get_target_element_node: the first element of the kind, in the order
\* node, first_child subtree, next_sibling subtree; 0 for None
RECURSIVE get_target_element_node(_, _, _)
get_target_element_node(ns, node, element_kind) ==
    IF node = 0 THEN 0
    ELSE IF HasElementKind(ns[node], element_kind) THEN node
    ELSE LET result1 == get_target_element_node(ns, ns[node].first_child, element_kind)
         IN IF result1 # 0 THEN result1
            ELSE get_target_element_node(ns, ns[node].next_sibling, element_kind)

\* get_style_content: the text of the first child of the style element
get_style_content(ns, root) ==
    LET style_node == get_target_element_node(ns, root, TagStyle) IN
    IF style_node = 0 THEN <<>>
    ELSE LET text_node == ns[style_node].first_child IN
         IF text_node = 0 THEN <<>>
         ELSE IF ns[text_node].kind = "Text" THEN ns[text_node].text ELSE <<>>

\* CssTokenizer: white space separates; `{ } : ;` are tokens of their own,
\* `#` and the name after it a hash token, a run of name characters an
\* identifier, a run of digits a number, any other character a delimiter
Digits == {"0", "1", "2", "3", "4", "5", "6", "7", "8", "9"}
IsNameChar(c) == is_ascii_alphabetic(c) \/ c \in Digits \/ c \in {"-", "_"}

RECURSIVE NameRunEnd(_, _)
NameRunEnd(text, i) ==
    IF i <= Len(text) /\ IsNameChar(text[i]) THEN NameRunEnd(text, i + 1) ELSE i

RECURSIVE CssTokenize(_, _)
CssTokenize(text, i) ==
    IF i > Len(text) THEN <<>>
    ELSE LET c == text[i]
             e == NameRunEnd(text, i + 1)
         IN
         CASE c \in {" ", "\n"} -> CssTokenize(text, i + 1)
           [] c = "{" -> <<OpenCurly>>  \o CssTokenize(text, i + 1)
           [] c = "}" -> <<CloseCurly>> \o CssTokenize(text, i + 1)
           [] c = ":" -> <<Colon>>      \o CssTokenize(text, i + 1)
           [] c = ";" -> <<SemiColon>>  \o CssTokenize(text, i + 1)
           [] c = "#" -> <<HashToken(SubSeq(text, i, e - 1))>> \o CssTokenize(text, e)
           [] c \in Digits -> <<Number(SubSeq(text, i, e - 1))>> \o CssTokenize(text, e)
           [] IsNameChar(c) /\ c \notin Digits ->
                  <<Ident(SubSeq(text, i, e - 1))>> \o CssTokenize(text, e)
           [] OTHER -> <<Delim(c)>> \o CssTokenize(text, i + 1)

\* consume_list_of_rules run to its end: [rules, status]
RECURSIVE RulesLoop(_)
RulesLoop(cs) ==
    IF ~CssRunning(cs) THEN cs
    ELSE IF CssPeek(cs) = NoCssToken THEN [cs EXCEPT !.status = "returned"]
    ELSE LET r == consume_qualified_rule(cs) IN
         IF ~CssRunning(r.cs) THEN r.cs
         ELSE IF CssPeek(cs).type = "AtKeyword" THEN RulesLoop(r.cs)
         ELSE IF r.some THEN RulesLoop([r.cs EXCEPT !.rules = Append(@, r.rule)])
         ELSE [r.cs EXCEPT !.status = "returned"]

\* CssParser::new(CssTokenizer::new(style)).parse_stylesheet()
parse_stylesheet(style) ==
    RulesLoop([tokens |-> CssTokenize(style, 1), pos |-> 0,
               status |-> "run", rules |-> <<>>])

-----------------------------------------------------------------------------
(* ComputedStyle, Color, DisplayType, FontSize (layout/computed_style.rs)   *)

StrBackgroundColor == <<"b", "a", "c", "k", "g", "r", "o", "u", "n", "d", "-", "c", "o", "l", "o", "r">>
StrColor   == <<"c", "o", "l", "o", "r">>
StrDisplay == <<"d", "i", "s", "p", "l", "a", "y">>
StrClass   == <<"c", "l", "a", "s", "s">>
StrId      == <<"i", "d">>
StrHref    == <<"h", "r", "e", "f">>
StrBlock   == <<"b", "l", "o", "c", "k">>
StrInline  == <<"i", "n", "l", "i", "n", "e">>
StrNone    == <<"n", "o", "n", "e">>
StrRed     == <<"r", "e", "d">>
StrBlue    == <<"b", "l", "u", "e">>
StrWhite   == <<"w", "h", "i", "t", "e">>
StrBlack   == <<"b", "l", "a", "c", "k">>

Unset == "Unset"
ComputedStyleDefault ==
    [background_color |-> Unset, color |-> Unset, display |-> Unset, font_size |-> Unset]

\* Color::from_name / Color::from_code: [ok, color]; a colour is kept as its name
ColorNames == {StrRed, StrBlue, StrWhite, StrBlack}
ColorWhite == "white"
ColorBlack == "black"
ColorOf(name) ==
    CASE name = StrRed -> "red" [] name = StrBlue -> "blue"
      [] name = StrWhite -> ColorWhite [] name = StrBlack -> ColorBlack
ColorFromName(name) ==
    IF name \in ColorNames THEN [ok |-> TRUE, color |-> ColorOf(name)]
    ELSE [ok |-> FALSE, color |-> Unset]
ColorFromCode(code) ==
    CASE code = <<"#", "f", "f", "0", "0", "0", "0">>  -> [ok |-> TRUE, color |-> "red"]
      [] code = <<"#", "0", "0", "0", "0", "f", "f">> -> [ok |-> TRUE, color |-> "blue"]
      [] OTHER -> [ok |-> FALSE, color |-> Unset]

\* DisplayType::from_str
DisplayTypeFromStr(v) ==
    CASE v = StrBlock  -> [ok |-> TRUE, display |-> "Block"]
      [] v = StrInline -> [ok |-> TRUE, display |-> "Inline"]
      [] v = StrNone   -> [ok |-> TRUE, display |-> "DisplayNone"]
      [] OTHER -> [ok |-> FALSE, display |-> Unset]

\* the defaults keyed on the node: block elements are body, h1, h2 and p
BlockElements == {TagBody, TagH1, TagH2, TagP}
DisplayTypeDefault(node) ==
    IF node.kind = "Text" THEN "Inline"
    ELSE IF node.kind = "Element" /\ node.tag \notin BlockElements THEN "Inline"
    ELSE "Block"
FontSizeDefault(node) ==
    IF node.kind = "Element" /\ node.tag = TagH1 THEN "XXLarge"
    ELSE IF node.kind = "Element" /\ node.tag = TagH2 THEN "XLarge"
    ELSE "Medium"

NoStyle == [background_color |-> "None", color |-> "None",
            display |-> "None", font_size |-> "None"]

\* ComputedStyle::defaulting: an unset property is inherited from the parent
\* (colours and font size, when the parent's is not the initial value) or
\* takes the default of the node; a property that is set is left alone
defaulting(style, node, parent_style) ==
    LET inherit(prop, initial) ==
            IF style[prop] # Unset THEN style[prop]
            ELSE IF parent_style # NoStyle /\ parent_style[prop] # initial
                 THEN parent_style[prop] ELSE Unset
        bg == inherit("background_color", ColorWhite)
        fg == inherit("color", ColorBlack)
        fs == inherit("font_size", "Medium")
    IN [background_color |-> IF bg = Unset THEN ColorWhite ELSE bg,
        color            |-> IF fg = Unset THEN ColorBlack ELSE fg,
        display          |-> IF style.display = Unset
                             THEN DisplayTypeDefault(node) ELSE style.display,
        font_size        |-> IF fs = Unset THEN FontSizeDefault(node) ELSE fs]

-----------------------------------------------------------------------------
(* The style cascade: is_node_selected and cascading_style                  *)

HasAttribute(node, name, value) ==
    \E i \in 1..Len(node.attributes) :
        node.attributes[i].name = name /\ node.attributes[i].value = value

is_node_selected(node, selector) ==
    IF node.kind # "Element" THEN FALSE
    ELSE CASE selector.kind = "TypeSelector"  -> node.tag = selector.v
           [] selector.kind = "ClassSelector" -> HasAttribute(node, StrClass, selector.v)
           [] selector.kind = "IdSelector"    -> HasAttribute(node, StrId, selector.v)
           [] OTHER -> FALSE

CascadeDeclaration_KeepFirst(style, declaration) ==
    LET v == declaration.value.v IN
    CASE declaration.property = StrBackgroundColor /\ style.background_color = Unset ->
           [style EXCEPT !.background_color = ColorFromName(v).color]
      [] declaration.property = StrColor /\ style.color = Unset ->
           [style EXCEPT !.color = ColorFromName(v).color]
      [] declaration.property = StrDisplay /\ style.display = Unset ->
           [style EXCEPT !.display = DisplayTypeFromStr(v).display]
      [] OTHER -> style

CascadeDeclaration_Skips(style, declaration) ==
    LET value == declaration.value
        named == ColorFromName(value.v)
        coded == ColorFromCode(value.v)
        d     == DisplayTypeFromStr(value.v)
    IN
    CASE declaration.property = StrBackgroundColor /\ value.type = "Ident" /\ named.ok ->
           [style EXCEPT !.background_color = named.color]
      [] declaration.property = StrBackgroundColor /\ value.type = "HashToken" /\ coded.ok ->
           [style EXCEPT !.background_color = coded.color]
      [] declaration.property = StrColor /\ value.type = "Ident" /\ named.ok ->
           [style EXCEPT !.color = named.color]
      [] declaration.property = StrColor /\ value.type = "HashToken" /\ coded.ok ->
           [style EXCEPT !.color = coded.color]
      [] declaration.property = StrDisplay /\ value.type = "Ident" /\ d.ok ->
           [style EXCEPT !.display = d.display]
      [] OTHER -> style

\* one pass of the loop of cascading_style
CascadeDeclaration(style, declaration) ==
    LET value == declaration.value
        named == ColorFromName(value.v)
        coded == ColorFromCode(value.v)
    IN
    CASE declaration.property = StrBackgroundColor ->
           IF value.type = "Ident"
           THEN [style EXCEPT !.background_color =
                     IF named.ok THEN named.color ELSE ColorWhite]
           ELSE IF value.type = "HashToken"
           THEN [style EXCEPT !.background_color =
                     IF coded.ok THEN coded.color ELSE ColorWhite]
           ELSE style
      [] declaration.property = StrColor ->
           IF value.type = "Ident"
           THEN [style EXCEPT !.color = IF named.ok THEN named.color ELSE ColorBlack]
           ELSE IF value.type = "HashToken"
           THEN [style EXCEPT !.color = IF coded.ok THEN coded.color ELSE ColorBlack]
           ELSE style
      [] declaration.property = StrDisplay ->
           IF value.type = "Ident"
           THEN LET d == DisplayTypeFromStr(value.v) IN
                [style EXCEPT !.display = IF d.ok THEN d.display ELSE "DisplayNone"]
           ELSE style
      [] OTHER -> style

RECURSIVE cascading_style(_, _)
cascading_style(style, declarations) ==
    IF declarations = <<>> THEN style
    ELSE cascading_style(CascadeDeclaration(style, Head(declarations)),
                         Tail(declarations))

\* for rule in &cssom.rules { if is_node_selected { cascading_style } }
RECURSIVE CascadeRules(_, _, _)
CascadeRules(style, node, rules) ==
    IF rules = <<>> THEN style
    ELSE CascadeRules(IF is_node_selected(node, Head(rules).selector)
                      THEN cascading_style(style, Head(rules).declarations)
                      ELSE style,
                      node, Tail(rules))

-----------------------------------------------------------------------------
(* constants.rs *)

WINDOW_WIDTH   == 600
WINDOW_PADDING == 5
CHAR_WIDTH     == 8
CHAR_HEIGHT    == 16
CHAR_HEIGHT_WITH_PADDING == CHAR_HEIGHT + 4
CONTENT_AREA_WIDTH == WINDOW_WIDTH - WINDOW_PADDING * 2

-----------------------------------------------------------------------------
(* LayoutObject of a Text node: compute_size and paint (layout_object.rs)   *)

LayoutPoint(x, y) == [x |-> x, y |-> y]
LayoutSize(width, height) == [width |-> width, height |-> height]

\* match self.style.font_size() { Medium => 1, XLarge => 2, XXLarge => 3 }
FontSizes == {"Medium", "XLarge", "XXLarge"}
FontSizeRatio(font_size) ==
    CASE font_size = "Medium"  -> 1
      [] font_size = "XLarge"  -> 2
      [] font_size = "XXLarge" -> 3

\* compute_size, LayoutObjectKind::Text; t is the text of the node
ComputeSizeText(text, font_size) ==
    LET ratio == FontSizeRatio(font_size)
        width == CHAR_WIDTH * ratio * Len(text)
    IN
    IF width > CONTENT_AREA_WIDTH
    THEN LET line_num == IF width % CONTENT_AREA_WIDTH = 0
                         THEN width \div CONTENT_AREA_WIDTH
                         ELSE (width \div CONTENT_AREA_WIDTH) + 1
         IN LayoutSize(CONTENT_AREA_WIDTH, CHAR_HEIGHT_WITH_PADDING * ratio * line_num)
    ELSE LayoutSize(width, CHAR_HEIGHT_WITH_PADDING * ratio)

\* t.replace("\n", " ").split(' ').filter(|s| !s.is_empty()).join(" ")
\* what the character at i contributes: nothing for white space, itself for
\* a character inside a word, a space and itself for the first character of
\* a word that is not the first word
IsBlank(c) == c \in {" ", "\n"}
JoinedAt(text, i) ==
    IF IsBlank(text[i]) THEN <<>>
    ELSE IF i > 1 /\ IsBlank(text[i - 1]) /\ (\E j \in 1..(i - 1) : ~IsBlank(text[j]))
    THEN <<" ", text[i]>>
    ELSE <<text[i]>>
RECURSIVE JoinWords(_, _, _)
JoinWords(text, lo, hi) ==
    IF lo > hi THEN <<>>
    ELSE IF lo = hi THEN JoinedAt(text, lo)
    ELSE LET mid == (lo + hi) \div 2 IN
         JoinWords(text, lo, mid) \o JoinWords(text, mid + 1, hi)
PlainText(text) == JoinWords(text, 1, Len(text))

\* str::trim for the white space that occurs here
RECURSIVE TrimStart(_)
TrimStart(line) ==
    IF line # <<>> /\ Head(line) \in {" ", "\n"} THEN TrimStart(Tail(line)) ELSE line
RECURSIVE TrimEnd(_)
TrimEnd(line) ==
    IF line # <<>> /\ line[Len(line)] \in {" ", "\n"}
    THEN TrimEnd(SubSeq(line, 1, Len(line) - 1)) ELSE line
Trim(line) == TrimEnd(TrimStart(line))

find_index_for_line_break_NoScan(line, max_index) == max_index

\* for i in (0..max_index).rev() { if chars[i] == ' ' { return i } } max_index
find_index_for_line_break(line, max_index) ==
    LET spaces == { i \in 0..(max_index - 1) : line[i + 1] = " " } IN
    IF spaces = {} THEN max_index
    ELSE CHOOSE i \in spaces : \A j \in spaces : j <= i

RECURSIVE split_text(_, _)
split_text(line, char_width) ==
    LET width == WINDOW_WIDTH + WINDOW_PADDING IN
    IF Len(line) * char_width > width
    THEN LET at == find_index_for_line_break(line, width \div char_width) IN
         <<SubSeq(line, 1, at)>>
             \o split_text(Trim(SubSeq(line, at + 1, Len(line))), char_width)
    ELSE <<line>>

\* DisplayItem::Text
DisplayItemText(text, style, layout_point) ==
    [type |-> "Text", text |-> text, style |-> style, layout_point |-> layout_point]

\* the y of the item of line i (0-based)
TextLineY(point, i) == point.y + CHAR_HEIGHT_WITH_PADDING * i

\* paint, LayoutObjectKind::Text
PaintText(text, style, point) ==
    LET ratio == FontSizeRatio(style.font_size)
        lines == split_text(PlainText(text), CHAR_WIDTH * ratio)
    IN [i \in 1..Len(lines) |->
          DisplayItemText(lines[i], style, LayoutPoint(point.x, TextLineY(point, i - 1)))]

LayoutRect(point, size) == [point |-> point, size |-> size]
\* Option<LayoutRect>
NoRect == [some |-> FALSE]
SomeRect(rect) == [some |-> TRUE, rect |-> rect]

\* compute_position: the point of an object of kind `kind`
compute_position_NoFlow(kind, parent_point, prev_sibling_kind, prev_sibling_rect) ==
    IF kind = "Block" \/ prev_sibling_kind = "Block"
    THEN LayoutPoint(parent_point.x,
                     IF prev_sibling_rect.some
                     THEN prev_sibling_rect.rect.point.y
                          + prev_sibling_rect.rect.size.height
                     ELSE parent_point.y)
    ELSE parent_point

compute_position(kind, parent_point, prev_sibling_kind, prev_sibling_rect) ==
    IF kind = "Block" \/ prev_sibling_kind = "Block"
    THEN LayoutPoint(parent_point.x,
                     IF prev_sibling_rect.some
                     THEN prev_sibling_rect.rect.point.y
                              + prev_sibling_rect.rect.size.height
                     ELSE parent_point.y)
    ELSE IF kind = "Inline" /\ prev_sibling_kind = "Inline"
    THEN IF prev_sibling_rect.some
         THEN LayoutPoint(prev_sibling_rect.rect.point.x
                              + prev_sibling_rect.rect.size.width,
                          prev_sibling_rect.rect.point.y)
         ELSE parent_point
    ELSE parent_point

-----------------------------------------------------------------------------
(* The layout tree (layout_view.rs).  A layout object is an entry of an     *)
(* arena `objs`, named by its index; 0 is None.  `node` is the DOM node it  *)
(* was made for, `parent` the parent_obj it was created with.               *)

LayoutObjectNew(node, parent_obj) ==
    [kind |-> "Block", node |-> node, parent |-> parent_obj,
     first_child |-> 0, next_sibling |-> 0,
     style |-> ComputedStyleDefault,
     rect |-> LayoutRect(LayoutPoint(0, 0), LayoutSize(0, 0))]

\* update_kind; a Document node panics
update_kind(object, node) ==
    [object EXCEPT !.kind =
        CASE node.kind = "Element" -> object.style.display
          [] node.kind = "Text"    -> "Text"
          [] OTHER                 -> "panic"]

\* create_layout_object: [some, object]
create_layout_object(objs, ns, node, parent_obj, cssom) ==
    IF node = 0 THEN [some |-> FALSE, object |-> LayoutObjectNew(0, 0)]
    ELSE LET layout_object == LayoutObjectNew(node, parent_obj)
             cascaded      == CascadeRules(layout_object.style, ns[node], cssom)
             parent_style  == IF parent_obj = 0 THEN NoStyle ELSE objs[parent_obj].style
             style         == defaulting(cascaded, ns[node], parent_style)
             styled        == [layout_object EXCEPT !.style = style]
         IN IF style.display = "DisplayNone"
            THEN [some |-> FALSE, object |-> styled]
            ELSE [some |-> TRUE, object |-> update_kind(styled, ns[node])]

TargetNode_NoScan(objs, ns, node, parent_obj, cssom) ==
    IF node # 0 /\ create_layout_object(objs, ns, node, parent_obj, cssom).some
    THEN node ELSE 0

TargetNode_Descends(objs, ns, node, parent_obj, cssom) ==
    IF node = 0 THEN 0
    ELSE IF create_layout_object(objs, ns, node, parent_obj, cssom).some THEN node
    ELSE IF ns[node].first_child # 0 THEN ns[node].first_child
    ELSE ns[node].next_sibling

\* the `while layout_object.is_none()` loop of build_layout_tree: the first
\* node of the sibling chain from `node` that gets a layout object, 0 if none
RECURSIVE TargetNode(_, _, _, _, _)
TargetNode(objs, ns, node, parent_obj, cssom) ==
    IF node = 0 THEN 0
    ELSE IF create_layout_object(objs, ns, node, parent_obj, cssom).some THEN node
    ELSE TargetNode(objs, ns, ns[node].next_sibling, parent_obj, cssom)

\* build_layout_tree: [objs, id], the arena with the subtree added and its root
RECURSIVE build_layout_tree(_, _, _, _, _)
RECURSIVE BuildFallback(_, _, _, _, _)
build_layout_tree(objs, ns, node, parent_obj, cssom) ==
    LET target_node == TargetNode(objs, ns, node, parent_obj, cssom) IN
    IF target_node = 0 THEN [objs |-> objs, id |-> 0]
    ELSE
    LET layout_object == Len(objs) + 1
        objs1 == Append(objs,
                   create_layout_object(objs, ns, target_node, parent_obj, cssom).object)
        original_first_child  == ns[target_node].first_child
        original_next_sibling == ns[target_node].next_sibling
        first_child0  == build_layout_tree(objs1, ns, original_first_child,
                                           layout_object, cssom)
        next_sibling0 == build_layout_tree(first_child0.objs, ns, original_next_sibling,
                                           layout_object, cssom)
        first_child ==
            IF first_child0.id = 0 /\ original_first_child # 0
            THEN BuildFallback(next_sibling0.objs, ns,
                               ns[original_first_child].next_sibling, layout_object, cssom)
            ELSE [objs |-> next_sibling0.objs, id |-> first_child0.id]
        next_sibling ==
            IF next_sibling0.id = 0 /\ original_next_sibling # 0
            THEN BuildFallback(first_child.objs, ns,
                               ns[original_next_sibling].next_sibling, 0, cssom)
            ELSE [objs |-> first_child.objs, id |-> next_sibling0.id]
    IN [objs |-> [next_sibling.objs EXCEPT
                     ![layout_object].first_child  = first_child.id,
                     ![layout_object].next_sibling = next_sibling.id],
        id |-> layout_object]

\* the fallback loops: retry from the following DOM siblings until one builds
BuildFallback(objs, ns, original_dom_node, parent_obj, cssom) ==
    LET built == build_layout_tree(objs, ns, original_dom_node, parent_obj, cssom) IN
    IF built.id = 0 /\ original_dom_node # 0
    THEN BuildFallback(objs, ns, ns[original_dom_node].next_sibling, parent_obj, cssom)
    ELSE built

RECURSIVE BlockHeight_All(_, _, _)
BlockHeight_All(objs, child, prev_child_kind) ==
    IF child = 0 THEN 0
    ELSE objs[child].rect.size.height
         + BlockHeight_All(objs, objs[child].next_sibling, objs[child].kind)

\* compute_size, Block: the heights of the children that start a new line
RECURSIVE BlockHeight(_, _, _)
BlockHeight(objs, child, prev_child_kind) ==
    IF child = 0 THEN 0
    ELSE (IF prev_child_kind = "Block" \/ objs[child].kind = "Block"
          THEN objs[child].rect.size.height ELSE 0)
         + BlockHeight(objs, objs[child].next_sibling, objs[child].kind)

\* compute_size, Inline: the sum of a dimension over the children
RECURSIVE InlineSum(_, _, _)
InlineSum(objs, child, dim) ==
    IF child = 0 THEN 0
    ELSE objs[child].rect.size[dim] + InlineSum(objs, objs[child].next_sibling, dim)

compute_size(objs, ns, o, parent_size) ==
    LET size ==
          CASE objs[o].kind = "Block" ->
                 LayoutSize(parent_size.width,
                            BlockHeight(objs, objs[o].first_child, "Block"))
            [] objs[o].kind = "Inline" ->
                 LayoutSize(InlineSum(objs, objs[o].first_child, "width"),
                            InlineSum(objs, objs[o].first_child, "height"))
            [] objs[o].kind = "Text" ->
                 ComputeSizeText(ns[objs[o].node].text, objs[o].style.font_size)
    IN [objs EXCEPT ![o].rect.size = size]

RECURSIVE calculate_node_size(_, _, _, _)
calculate_node_size(objs, ns, node, parent_size) ==
    IF node = 0 THEN objs
    ELSE LET objs1 == IF objs[node].kind = "Block"
                      THEN compute_size(objs, ns, node, parent_size) ELSE objs
             objs2 == calculate_node_size(objs1, ns, objs1[node].first_child, parent_size)
             objs3 == calculate_node_size(objs2, ns, objs2[node].next_sibling, parent_size)
         IN compute_size(objs3, ns, node, parent_size)

RECURSIVE calculate_node_position(_, _, _, _, _)
calculate_node_position(objs, node, parent_point, prev_sibling_kind, prev_sibling_rect) ==
    IF node = 0 THEN objs
    ELSE LET point == compute_position(objs[node].kind, parent_point,
                                       prev_sibling_kind, prev_sibling_rect)
             objs1 == [objs EXCEPT ![node].rect.point = point]
             objs2 == calculate_node_position(objs1, objs1[node].first_child,
                                              point, "Block", NoRect)
         IN calculate_node_position(objs2, objs2[node].next_sibling, parent_point,
                                    objs2[node].kind, SomeRect(objs2[node].rect))

\* LayoutView::update_layout on the tree [objs, id]: [root, objs]
update_layout(tree, ns) ==
    [root |-> tree.id,
     objs |-> calculate_node_position(
                  calculate_node_size(tree.objs, ns, tree.id,
                                      LayoutSize(CONTENT_AREA_WIDTH, 0)),
                  tree.id, LayoutPoint(0, 0), "Block", NoRect)]

\* LayoutView::new
LayoutViewNew(ns, cssom) ==
    update_layout(
        build_layout_tree(<<>>, ns, get_target_element_node(ns, DocumentId, TagBody),
                          0, cssom),
        ns)

-----------------------------------------------------------------------------
(* Painting and hit testing                                                 *)

DisplayItemRect(style, layout_rect) ==
    [type |-> "Rect", style |-> style, layout_rect |-> layout_rect]

\* LayoutObject::paint
paint(object, node) ==
    IF object.style.display = "DisplayNone" THEN <<>>
    ELSE CASE object.kind = "Block" ->
                IF node.kind = "Element"
                THEN <<DisplayItemRect(object.style, object.rect)>> ELSE <<>>
           [] object.kind = "Inline" -> <<>>
           [] object.kind = "Text" ->
                IF node.kind = "Text"
                THEN PaintText(node.text, object.style, object.rect.point) ELSE <<>>

\* LayoutView::paint: the items of a node, of its first-child subtree, then
\* of its next-sibling subtree
RECURSIVE paint_node(_, _, _)
paint_node(objs, ns, node) ==
    IF node = 0 THEN <<>>
    ELSE paint(objs[node], ns[objs[node].node])
         \o paint_node(objs, ns, objs[node].first_child)
         \o paint_node(objs, ns, objs[node].next_sibling)

LayoutViewPaint(view, ns) == paint_node(view.objs, ns, view.root)

is_hit_Exclusive(rect, point) ==
    /\ rect.point.x < point.x /\ point.x < rect.point.x + rect.size.width
    /\ rect.point.y < point.y /\ point.y < rect.point.y + rect.size.height
\* LayoutRect::is_hit
is_hit(rect, point) ==
    LET is_hit_x == rect.point.x <= point.x /\ point.x <= rect.point.x + rect.size.width
        is_hit_y == rect.point.y <= point.y /\ point.y <= rect.point.y + rect.size.height
    IN is_hit_x /\ is_hit_y

\* LayoutView::find_node_by_position, 0 for None: a hit in the first-child
\* subtree, else a hit in the next-sibling subtree, else the node itself when
\* its rect is hit, so that a descendant answers before the box around it
RECURSIVE find_node_by_position(_, _, _)
find_node_by_position(objs, node, position) ==
    IF node = 0 THEN 0
    ELSE LET result1 == find_node_by_position(objs, objs[node].first_child, position)
             result2 == find_node_by_position(objs, objs[node].next_sibling, position)
         IN IF result1 # 0 THEN result1
            ELSE IF result2 # 0 THEN result2
            ELSE IF is_hit(objs[node].rect, position) THEN node
            ELSE 0

-----------------------------------------------------------------------------
(* Page (page.rs).  A page is [frame, style, layout_view, display_items],   *)
(* each Option a record with a `some` flag; status is "ok" until a call     *)
(* panics or never returns.                                                 *)

NoFrame       == [some |-> FALSE]
NoStyleSheet  == [some |-> FALSE]
NoLayoutView  == [some |-> FALSE]
NoString      == [some |-> FALSE]
SomeString(v) == [some |-> TRUE, v |-> v]

PageDefault ==
    [status |-> "ok", frame |-> NoFrame, style |-> NoStyleSheet,
     layout_view |-> NoLayoutView, display_items |-> <<>>]

\* self.frame = Some(frame); self.style = Some(cssom); a parser that does
\* not return leaves the page dead
SetFrame(pg, frame, cssom) ==
    IF cssom.status # "returned" THEN [pg EXCEPT !.status = cssom.status]
    ELSE [pg EXCEPT !.frame = [some |-> TRUE, nodes |-> frame.nodes],
                    !.style = [some |-> TRUE, rules |-> cssom.rules]]

ParseFrameStyle(pg, frame) ==
    IF frame.status # "returned" THEN [pg EXCEPT !.status = "panic"]
    ELSE SetFrame(pg, frame, parse_stylesheet(get_style_content(frame.nodes, DocumentId)))

create_frame(pg, html) == ParseFrameStyle(pg, ConstructTree(html))

SomeLayoutView(layout_view) ==
    [some |-> TRUE, root |-> layout_view.root, objs |-> layout_view.objs]

set_layout_view(pg) ==
    IF pg.status # "ok" \/ ~pg.frame.some \/ ~pg.style.some THEN pg
    ELSE [pg EXCEPT !.layout_view =
             SomeLayoutView(LayoutViewNew(pg.frame.nodes, pg.style.rules))]

paint_tree_Accumulating(pg) ==
    IF pg.status # "ok" \/ ~pg.layout_view.some THEN pg
    ELSE [pg EXCEPT !.display_items =
             pg.display_items \o LayoutViewPaint(pg.layout_view, pg.frame.nodes)]
paint_tree(pg) ==
    IF pg.status # "ok" \/ ~pg.layout_view.some THEN pg
    ELSE [pg EXCEPT !.display_items = LayoutViewPaint(pg.layout_view, pg.frame.nodes)]

recieve_response(pg, body) == paint_tree(set_layout_view(create_frame(pg, body)))

\* Element::get_attribute
RECURSIVE get_attribute(_, _)
get_attribute(attributes, name) ==
    IF attributes = <<>> THEN NoString
    ELSE IF Head(attributes).name = name THEN SomeString(Head(attributes).value)
    ELSE get_attribute(Tail(attributes), name)

\* Page::clicked: Option<String>
clicked(pg, position) ==
    IF ~pg.layout_view.some THEN NoString
    ELSE LET objs == pg.layout_view.objs
             node == find_node_by_position(objs, pg.layout_view.root, position)
         IN IF node = 0 THEN NoString
            ELSE LET parent == objs[node].parent IN
                 IF parent = 0 THEN NoString
                 ELSE LET e == pg.frame.nodes[objs[parent].node] IN
                      IF e.kind = "Element" /\ e.tag = TagA
                      THEN get_attribute(e.attributes, StrHref)
                      ELSE NoString

-----------------------------------------------------------------------------
(* Inputs of the tokenizer *)

MaxAttrs      == 2   \* attributes written in a start tag
MaxNameLen    == 2   \* letters of the name in `<name />`
MaxBodyLen    == 2   \* characters of a script body
MaxFreeLen    == 3   \* length of an arbitrary input string
MaxNoneCalls  == 2   \* calls of next() made after it has returned None

\* the sequences over S of length at most n
SeqsUpTo(S, n) == UNION { [1..k -> S] : k \in 0..n }

\* the i-th attribute is written  <sep spaces> name = value, the value in
\* double quotes, in single quotes or bare
AttrSpecs == [style : {"dq", "sq", "unq"}, sep : {1, 2}]
AttrName(i)  == <<LowerSeq[i], "x">>
AttrValue(i) == <<UpperSeq[i], "y">>
Quoted(style, v) ==
    CASE style = "dq"  -> <<"\"">> \o v \o <<"\"">>
      [] style = "sq"  -> <<"'">> \o v \o <<"'">>
      [] style = "unq" -> v
AttrText(a, i) ==
    (IF a.sep = 1 THEN <<" ">> ELSE <<" ", " ">>)
        \o AttrName(i) \o <<"=">> \o Quoted(a.style, AttrValue(i))
AttrTagText(as) ==
    <<"<", "p">> \o Concat([i \in 1..Len(as) |-> AttrText(as[i], i)])
        \o <<">", "<", "/", "p", ">">>

SelfClosingText(name) == <<"<">> \o name \o <<" ", "/", ">">>
\* <name/>, with no space before the slash
SlashedText(name) == <<"<">> \o name \o <<"/", ">">>
NameChars == {"i", "M", "g"}

ScriptOpenText  == <<"<", "s", "c", "r", "i", "p", "t", ">">>
ScriptCloseText == <<"<", "/", "s", "c", "r", "i", "p", "t", ">">>
ScriptText(body) == ScriptOpenText \o body \o ScriptCloseText
BodyChars == {"j", "<", "/", " "}

FreeChars == {"<", "/", ">", "a", "A", " ", "="}

\* <Name attr=value></Name>, the attribute name and the value both written
\* as s.body, in mixed case
CaseChars == {"k", "Q"}
CasedText(name, body) ==
    <<"<">> \o name \o <<" ">> \o body \o <<"=">> \o body
        \o <<">", "<", "/">> \o name \o <<">">>

TokSource(kind, as, name, body) ==
    [kind |-> kind, attrs |-> as, name |-> name, body |-> body]

FullText(s) ==
    CASE s.kind = "attrs"     -> AttrTagText(s.attrs)
      [] s.kind = "selfclose" -> SelfClosingText(s.name)
      [] s.kind = "slashed"   -> SlashedText(s.name)
      [] s.kind = "script"    -> ScriptText(s.body)
      [] s.kind = "free"      -> s.body
      [] s.kind = "cased"     -> CasedText(s.name, s.body)

TokSources ==
    { TokSource("attrs", as, <<>>, <<>>) : as \in SeqsUpTo(AttrSpecs, MaxAttrs) }
    \cup { TokSource("selfclose", <<>>, n, <<>>) :
               n \in SeqsUpTo(NameChars, MaxNameLen) \ {<<>>} }
    \cup { TokSource("slashed", <<>>, n, <<>>) :
               n \in SeqsUpTo(NameChars, MaxNameLen) \ {<<>>} }
    \cup { TokSource("script", <<>>, <<>>, b) : b \in SeqsUpTo(BodyChars, MaxBodyLen) }
    \cup { TokSource("free", <<>>, <<>>, b) : b \in SeqsUpTo(FreeChars, MaxFreeLen) }
    \cup { TokSource("cased", <<>>, n, b) :
               n \in SeqsUpTo(NameChars, MaxNameLen) \ {<<>>},
               b \in SeqsUpTo(CaseChars, MaxBodyLen) \ {<<>>} }

\* src.cut is the number of characters of the text that are given as input
Whole == src.cut = Len(FullText(src))

-----------------------------------------------------------------------------
(* Values of the variables a specification does not use *)

IdleTokenizer == HtmlTokenizerNew(<<>>)
IdleCss == [tokens |-> <<>>, pos |-> 0, status |-> "idle", rules |-> <<>>]

TokIdle ==
    /\ out = <<>> /\ nones = 0 /\ tstatus = "idle"
TreeIdle ==
    /\ mode = "Initial" /\ original_mode = "Initial"
    /\ stack_of_open_elements = <<>> /\ nodes = <<>>
    /\ token = NoToken /\ pstatus = "idle"
CssIdle == css = IdleCss
IdleObj  == [stage |-> "idle"]
IdlePage == [status |-> "idle"]
LayoutIdle == obj = IdleObj /\ page = IdlePage

tokVars  == <<out, nones, tstatus>>
treeVars == <<mode, original_mode, stack_of_open_elements, nodes, token, pstatus>>
layoutVars == <<obj, page>>

-----------------------------------------------------------------------------
(* The tokenizer driven on its own: repeated calls of next() *)

InitTok ==
    /\ \E s \in TokSources : \E n \in 0..Len(FullText(s)) :
          /\ src = [kind |-> s.kind, attrs |-> s.attrs, name |-> s.name,
                    body |-> s.body, cut |-> n]
          /\ t = HtmlTokenizerNew(SubSeq(FullText(s), 1, n))
    /\ out = <<>> /\ nones = 0 /\ tstatus = "run"
    /\ TreeIdle /\ CssIdle /\ LayoutIdle

TokenizerNext ==
    /\ tstatus = "run"
    /\ nones < MaxNoneCalls
    /\ LET r == HtmlTokenizerNext(t) IN
         /\ t' = r.t
         /\ tstatus' = IF r.panic = "no" THEN "run" ELSE r.panic
         /\ out' = IF r.panic = "no" /\ r.ret # NoToken THEN Append(out, r.ret) ELSE out
         /\ nones' = IF r.panic = "no" /\ r.ret = NoToken THEN nones + 1 ELSE nones
    /\ UNCHANGED <<treeVars, css, layoutVars, src>>

NextTok == TokenizerNext

SpecTok == InitTok /\ [][NextTok]_vars


-----------------------------------------------------------------------------
(* Inputs of the tree constructor *)

MaxElems        == 3   \* elements of a body written in full
MaxVariantElems == 2   \* elements of a body whose html/head/body tags may be left out
MaxPieces       == 3   \* tags and characters of an arbitrary document
MaxTailPieces   == 2   \* tags and characters after a closed document

OpenTag(tag)  == <<"<">> \o tag \o <<">">>
CloseTag(tag) == <<"<", "/">> \o tag \o <<">">>

\* A forest of properly nested elements: a sequence of
\* [tag, lead, kids], written <tag> x? kids </tag>
ForestTags == {TagP, TagA}

RECURSIVE ForestsOf(_)
ForestsOf(n) ==
    IF n = 0 THEN {<<>>}
    ELSE UNION { { <<[tag |-> tg, lead |-> l, kids |-> inner]>> \o rest :
                     tg \in ForestTags, l \in BOOLEAN,
                     inner \in ForestsOf(k), rest \in ForestsOf(n - 1 - k) } :
                 k \in 0..(n - 1) }

ForestsUpTo(n) == UNION { ForestsOf(k) : k \in 0..n }

RECURSIVE ForestText(_)
ForestText(f) ==
    IF f = <<>> THEN <<>>
    ELSE LET e == Head(f) IN
         OpenTag(e.tag) \o (IF e.lead THEN <<"x">> ELSE <<>>)
             \o ForestText(e.kids) \o CloseTag(e.tag) \o ForestText(Tail(f))

RECURSIVE NoText(_)
NoText(f) == \A i \in 1..Len(f) : ~f[i].lead /\ NoText(f[i].kids)

DocSource(h, hd, b, pre, f) ==
    [kind |-> "doc", keep_html |-> h, keep_head |-> hd, keep_body |-> b,
     pre |-> pre, forest |-> f, pieces |-> <<>>]
RawSource(ps) ==
    [kind |-> "raw", keep_html |-> FALSE, keep_head |-> FALSE, keep_body |-> FALSE,
     pre |-> <<>>, forest |-> <<>>, pieces |-> ps]

RawPieces ==
    { OpenTag(TagBody), CloseTag(TagBody), CloseTag(TagHtml), CloseTag(TagHead),
      OpenTag(TagP), CloseTag(TagP), CloseTag(TagA),
      OpenTag(TagStyle), CloseTag(TagStyle), OpenTag(TagScript), CloseTag(TagScript),
      <<"x">>, <<" ">>, <<">">> }

\* the document  <html><head></head><body> pre forest </body></html>  with
\* the tag pairs that are not kept left out
DocText(s) ==
    IF s.kind = "raw" THEN Concat(s.pieces)
    ELSE (IF s.keep_html THEN OpenTag(TagHtml) ELSE <<>>)
      \o (IF s.keep_head THEN OpenTag(TagHead) \o CloseTag(TagHead) ELSE <<>>)
      \o (IF s.keep_body THEN OpenTag(TagBody) ELSE <<>>)
      \o s.pre \o ForestText(s.forest)
      \o (IF s.keep_body THEN CloseTag(TagBody) ELSE <<>>)
      \o (IF s.keep_html THEN CloseTag(TagHtml) ELSE <<>>)

Pres == {<<>>, <<"x">>, <<" ">>}

\* a document whose body and html element were closed
ClosedDocument == OpenTag(TagBody) \o CloseTag(TagBody) \o CloseTag(TagHtml)

TreeSources ==
    { DocSource(TRUE, TRUE, TRUE, <<>>, f) : f \in ForestsUpTo(MaxElems) }
    \cup { DocSource(h, hd, b, pre, f) :
             h \in BOOLEAN, hd \in BOOLEAN, b \in BOOLEAN,
             pre \in Pres, f \in ForestsUpTo(MaxVariantElems) }
    \cup { RawSource(ps) : ps \in SeqsUpTo(RawPieces, MaxPieces) }
    \cup { RawSource(<<ClosedDocument>> \o ps) :
             ps \in SeqsUpTo(RawPieces, MaxTailPieces) }

-----------------------------------------------------------------------------
(* construct_tree, one pass of its loop at a time *)

P == [mode |-> mode, original_mode |-> original_mode,
      stack |-> stack_of_open_elements, nodes |-> nodes, t |-> t,
      token |-> token, status |-> pstatus]

Becomes(ps) ==
    /\ mode' = ps.mode
    /\ original_mode' = ps.original_mode
    /\ stack_of_open_elements' = ps.stack
    /\ nodes' = ps.nodes
    /\ t' = ps.t
    /\ token' = ps.token
    /\ pstatus' = ps.status
    /\ UNCHANGED <<tokVars, css, layoutVars, src>>

InitTree ==
    /\ \E s \in TreeSources :
          /\ src = s
          /\ t = HtmlTokenizerNew(DocText(s))
    /\ mode = "Initial" /\ original_mode = "Initial"
    /\ stack_of_open_elements = <<>>
    /\ nodes = <<DocumentNode>>
    /\ token = NoToken
    /\ pstatus = "start"
    /\ TokIdle /\ CssIdle /\ LayoutIdle

InLoop(m) == pstatus = "run" /\ token # NoToken /\ mode = m

\* let mut token = self.t.next();
ConstructTreeBegin ==
    /\ pstatus = "start"
    /\ Becomes(NextToken([P EXCEPT !.status = "run"]))

InitialStep        == InLoop("Initial")        /\ Becomes(InitialMode(P))
BeforeHtmlStep     == InLoop("BeforeHtml")     /\ Becomes(BeforeHtmlMode(P))
BeforeHeadStep     == InLoop("BeforeHead")     /\ Becomes(BeforeHeadMode(P))
InHeadStep         == InLoop("InHead")         /\ Becomes(InHeadMode(P))
AfterHeadStep      == InLoop("AfterHead")      /\ Becomes(AfterHeadMode(P))
InBodyStep         == InLoop("InBody")         /\ Becomes(InBodyMode(P))
TextStep           == InLoop("Text")           /\ Becomes(TextMode(P))
AfterBodyStep      == InLoop("AfterBody")      /\ Becomes(AfterBodyMode(P))
AfterAfterBodyStep == InLoop("AfterAfterBody") /\ Becomes(AfterAfterBodyMode(P))

\* the token stream is exhausted: the loop ends and the window is returned
ConstructTreeEnd ==
    /\ pstatus = "run" /\ token = NoToken
    /\ Becomes(Return(P))

NextTree ==
    \/ ConstructTreeBegin
    \/ InitialStep
    \/ BeforeHtmlStep
    \/ BeforeHeadStep
    \/ InHeadStep
    \/ AfterHeadStep
    \/ InBodyStep
    \/ TextStep
    \/ AfterBodyStep
    \/ AfterAfterBodyStep
    \/ ConstructTreeEnd

Spec == InitTree /\ [][NextTree]_vars

-----------------------------------------------------------------------------
(* Reading a DOM *)

\* the chain  id, id.next_sibling, ...  (at most `fuel` nodes of it)
RECURSIVE Chain(_, _, _)
Chain(ns, id, fuel) ==
    IF id = 0 \/ fuel = 0 THEN <<>>
    ELSE <<id>> \o Chain(ns, ns[id].next_sibling, fuel - 1)

\* p.first_child, next_sibling, next_sibling, ...
Children(ns, p) == Chain(ns, ns[p].first_child, Len(ns))

Label(node) ==
    CASE node.kind = "Document" -> <<"#document">>
      [] node.kind = "Element"  -> <<"#element">> \o node.tag
      [] node.kind = "Text"     -> <<"#text">> \o node.text

\* the tree below a node, by the owning links: <<label, <<child trees>>>>
RECURSIVE Shape(_, _)
Shape(ns, id) ==
    LET kids == Children(ns, id) IN
    <<Label(ns[id]), [i \in 1..Len(kids) |-> Shape(ns, kids[i])]>>

ElementShape(tag, kids) == <<<<"#element">> \o tag, kids>>
TextShape(text) == <<<<"#text">> \o text, <<>>>>

RECURSIVE ForestShape(_)
ForestShape(f) ==
    [i \in 1..Len(f) |->
        ElementShape(f[i].tag,
                     (IF f[i].lead THEN <<TextShape(<<"x">>)>> ELSE <<>>)
                         \o ForestShape(f[i].kids))]

\* Document > html > (head, body > kids)
PageShape(body_kids) ==
    <<<<"#document">>,
      <<ElementShape(TagHtml,
                     <<ElementShape(TagHead, <<>>),
                       ElementShape(TagBody, body_kids)>>)>>>>

\* the nodes that exist: those owned, through first_child and next_sibling,
\* by the Document or by an entry of the open-element stack.  A node no
\* owner holds any more has been freed, and a back-reference to it no
\* longer resolves.
RECURSIVE Owned(_, _, _)
Owned(ns, frontier, seen) ==
    IF frontier = {} THEN seen
    ELSE LET now  == seen \cup frontier
             next == { ns[n].first_child : n \in frontier }
                       \cup { ns[n].next_sibling : n \in frontier }
         IN Owned(ns, (next \ {0}) \ now, now)

LiveNodes ==
    Owned(nodes, {DocumentId} \cup { stack_of_open_elements[i] :
                                       i \in 1..Len(stack_of_open_elements) }, {})

Resolves(id) == id # 0 /\ id \in LiveNodes

Occurrences(sq, x) == Cardinality({ i \in 1..Len(sq) : sq[i] = x })

Panicked == pstatus \in {"panic_pop_until", "panic_assert_html", "panic_tokenizer"}
Ended == pstatus = "returned" \/ Panicked

-----------------------------------------------------------------------------
(* Claims about the tree constructor, checked under Spec *)

WrittenInFull == src.kind = "doc" /\ src.keep_html /\ src.keep_head /\ src.keep_body

\* C1: for a well-formed document whose body holds properly nested elements
\* (any number of siblings, three or more included), the DOM has exactly one
\* Element per start tag, each a child of the element whose tags enclose it,
\* siblings in source order.
C1_OneElementPerStartTag ==
    (WrittenInFull /\ src.pre = <<>> /\ NoText(src.forest)) =>
        /\ ~Panicked
        /\ pstatus = "returned" =>
               Shape(nodes, DocumentId) = PageShape(ForestShape(src.forest))

\* C2: whenever pop_until(kind) is invoked the open-element stack holds an
\* element of that kind, so its assertion never fails: an end tag with no
\* matching open element is absorbed and construct_tree returns a tree.
C2_PopUntilNeverFails == pstatus # "panic_pop_until"

\* C4: leaving out any subset of the html, head and body tag pairs of
\* <html><head></head><body>C</body></html> yields a DOM structurally equal
\* to that of the full document: Document > html > (head, body > ...).
FullSource == [src EXCEPT !.keep_html = TRUE, !.keep_head = TRUE, !.keep_body = TRUE]
HtmlHeadBody(ns) ==
    LET top == Children(ns, DocumentId) IN
    /\ Len(top) = 1 /\ Label(ns[top[1]]) = <<"#element">> \o TagHtml
    /\ LET kids == Children(ns, top[1]) IN
         /\ Len(kids) = 2
         /\ Label(ns[kids[1]]) = <<"#element">> \o TagHead
         /\ Label(ns[kids[2]]) = <<"#element">> \o TagBody
SameDomAsFull ==
    /\ pstatus = "returned"
    /\ HtmlHeadBody(nodes)
    /\ Shape(nodes, DocumentId)
         = Shape(ConstructTree(DocText(FullSource)).nodes, DocumentId)

BodyKeptOrStartsWithElement ==
    src.keep_body \/ (src.pre = <<>> /\ src.forest # <<>>)
C5_ParentListsChild ==
    pstatus = "returned" =>
        \A n \in LiveNodes :
            LET p == nodes[n].parent IN
            Resolves(p) =>
                LET chain == Children(nodes, p) IN
                /\ Occurrences(chain, n) = 1
                /\ Resolves(nodes[p].last_child)
                /\ nodes[p].last_child = chain[Len(chain)]
\* a parent that was given a third child, after which its second child is
\* owned by no one, in a tree that also holds a Text node put by insert_char
C5_Witness ==
    /\ pstatus = "returned"
    /\ \E p \in LiveNodes :
          /\ Len(Children(nodes, p)) = 2
          /\ \E n \in 1..Len(nodes) : nodes[n].parent = p /\ n \notin LiveNodes
    /\ \E n \in LiveNodes : nodes[n].kind = "Text" /\ Resolves(nodes[n].parent)

\* C19: for every input without a `<` (the empty string included)
\* construct_tree returns a Window whose Document has no children: the
\* characters are discarded in Initial mode and no element is synthesized.
NoLessThan(text) == \A i \in 1..Len(text) : text[i] # "<"
C19_TextOnlyInputEmptyDocument ==
    (NoLessThan(DocText(src)) /\ Ended) =>
        (pstatus = "returned" /\ nodes = <<DocumentNode>>)
C19_Witness ==
    /\ NoLessThan(DocText(src)) /\ Len(DocText(src)) >= 2
    /\ \E i \in 1..Len(DocText(src)) : DocText(src)[i] \notin {" ", "\n"}
    /\ pstatus = "returned" /\ Children(nodes, DocumentId) = <<>>

\* The measure of construct_tree between two calls of self.t.next(): a pass
\* of the loop that keeps its token moves to a mode of lower rank.  An end
\* tag </html> goes from InBody to AfterBody (pop_current_node(Body)), every
\* other token from AfterBody to InBody.
ModeRank(m, tok) ==
    CASE m = "Initial"        -> 8
      [] m = "BeforeHtml"     -> 7
      [] m = "BeforeHead"     -> 6
      [] m = "Text"           -> 5
      [] m = "InHead"         -> 4
      [] m = "AfterHead"      -> 3
      [] m = "AfterAfterBody" -> 2
      [] m = "InBody"         -> IF IsEnd(tok, TagHtml) THEN 1 ELSE 0
      [] m = "AfterBody"      -> IF IsEnd(tok, TagHtml) THEN 0 ELSE 1

\* the pass consumed a token: self.t.next() moved on in the input, or
\* returned None at its end
ConsumedToken == t'.pos > t.pos \/ token' = NoToken

\* the pass kept its token and changed the insertion mode, downwards
ChangedMode ==
    /\ token' = token
    /\ mode' # mode
    /\ ModeRank(mode', token) < ModeRank(mode, token)

LoopPass == pstatus = "run" /\ token # NoToken

InsertionModes ==
    {"Initial", "BeforeHtml", "BeforeHead", "InHead", "AfterHead", "InBody",
     "Text", "AfterBody", "AfterAfterBody"}

\* C21: construct_tree terminates: as long as it has not returned (or
\* panicked) a pass of its loop can run, and every pass ends the loop,
\* consumes a token, or keeps the token and moves to an insertion mode of
\* lower rank, so that no cycle of mode changes repeats on one token and
\* the input left to read bounds the number of passes.
C21_ConstructTreeTerminates ==
    /\ [](Ended \/ pstatus = "start" \/ (pstatus = "run" /\ mode \in InsertionModes))
    /\ [](t.pos <= Len(t.input) + 1)
    /\ [][LoopPass => (pstatus' # "run" \/ ConsumedToken \/ ChangedMode)]_vars

\* the document was closed and a start tag follows: AfterAfterBody and InBody
\* handled the same token, and the window was returned
C21_Witness ==
    /\ src.kind = "raw"
    /\ src.pieces = <<ClosedDocument, OpenTag(TagP)>>
    /\ pstatus = "returned"
    /\ mode = "InBody"
    /\ Len(nodes) = 5

Last(sq) == sq[Len(sq)]

\* the style or script element that opened Text mode: the topmost one of the
\* stack of open elements (0 when there is none)
IsOpener(node) == HasElementKind(node, TagStyle) \/ HasElementKind(node, TagScript)
Opener ==
    LET S == { i \in 1..Len(stack_of_open_elements) :
                 IsOpener(nodes[stack_of_open_elements[i]]) }
    IN IF S = {} THEN 0 ELSE CHOOSE i \in S : \A k \in S : k <= i

\* the start tag <style> or <script> enters Text mode: the element is pushed
\* and the current mode is saved
EntersText ==
    (mode # "Text" /\ mode' = "Text") =>
        /\ token.type = "StartTag" /\ token.tag \in {TagStyle, TagScript}
        /\ original_mode' = mode
        /\ Len(stack_of_open_elements') = Len(stack_of_open_elements) + 1
        /\ SubSeq(stack_of_open_elements', 1, Len(stack_of_open_elements))
              = stack_of_open_elements
        /\ Opener' = Len(stack_of_open_elements')
        /\ nodes'[Last(stack_of_open_elements')].tag = token.tag

\* while in Text mode only text nodes are pushed, above the element
StaysInText ==
    (mode = "Text" /\ mode' = "Text" /\ pstatus' = "run") =>
        /\ original_mode' = original_mode
        /\ Opener' = Opener
        /\ SubSeq(stack_of_open_elements', 1, Opener)
              = SubSeq(stack_of_open_elements, 1, Opener)
        /\ \A i \in (Opener + 1)..Len(stack_of_open_elements') :
              nodes'[stack_of_open_elements'[i]].kind = "Text"

\* the end tag of the element that opened Text mode
MatchingEndTag ==
    /\ LoopPass /\ mode = "Text" /\ Opener # 0
    /\ token.type = "EndTag"
    /\ token.tag = nodes[stack_of_open_elements[Opener]].tag

LeavesText ==
    MatchingEndTag =>
        /\ pstatus' \in {"run", "panic_tokenizer"}
        /\ mode' = original_mode
        /\ stack_of_open_elements' = SubSeq(stack_of_open_elements, 1, Opener - 1)

\* C23: Text mode is left on the end tag of the style/script element that
\* opened it: the stack of open elements is popped down through that
\* element, text node included, which gives the stack of just before the
\* start tag (entering pushed the element on it, and Text mode pushed text
\* nodes only), and the mode is the one saved when Text mode was entered.
C23_TextModeRestores ==
    /\ []((pstatus = "run" /\ mode = "Text") => Opener # 0)
    /\ [][EntersText /\ StaysInText /\ LeavesText]_vars

\* <style>x</style> was read: the text node and the style element are off
\* the stack, html and head are left, and the mode is InHead again
C23_Witness ==
    /\ src.kind = "raw"
    /\ src.pieces = <<OpenTag(TagStyle), <<"x">>, CloseTag(TagStyle)>>
    /\ pstatus = "returned"
    /\ mode = "InHead"
    /\ Len(stack_of_open_elements) = 2
    /\ Len(nodes) = 5

\* C34: in every DOM produced by construct_tree Text nodes are leaves: a
\* Text node has no child, and no element has a Text node as its parent.
C34_TextNodesAreLeaves ==
    \A n \in LiveNodes :
        /\ nodes[n].kind = "Text" => nodes[n].first_child = 0
        /\ (nodes[n].kind = "Element" /\ nodes[n].parent # 0)
               => nodes[nodes[n].parent].kind # "Text"

IsElementOf(id, tag) == HasElementKind(nodes[id], tag)

\* C35: the assertion of the InBody </html> handler never fails: a body
\* element is on the open-element stack only directly above the html
\* element, which is the bottom of the stack, so pop_current_node(Html)
\* succeeds once body is popped.
C35_HtmlBeneathBody ==
    /\ pstatus # "panic_assert_html"
    /\ \A i \in 1..Len(stack_of_open_elements) :
           IsElementOf(stack_of_open_elements[i], TagBody) =>
               i = 2 /\ IsElementOf(stack_of_open_elements[1], TagHtml)

\* <html><head></head></html>: the body is implied, and </html> arrives in
\* InBody with the body on top of the stack; both are popped
C35_Witness ==
    /\ src.kind = "doc" /\ src.keep_html /\ src.keep_head /\ ~src.keep_body
    /\ src.pre = <<>> /\ src.forest = <<>>
    /\ pstatus = "run" /\ mode = "AfterBody"
    /\ IsEnd(token, TagHtml)
    /\ stack_of_open_elements = <<>>
    /\ Len(nodes) = 4

LateModes == {"InBody", "AfterBody", "AfterAfterBody"}
ElementsOf(tag) == { i \in 1..Len(nodes) : IsElementOf(i, tag) }

\* C38: once the tree constructor has reached InBody its insertion mode
\* stays within InBody, AfterBody and AfterAfterBody; Text mode is entered
\* only from InHead and left only for InHead; at most one html, one head and
\* one body element are inserted per parse.
C38_ModesOnlyAdvance ==
    /\ [][(mode \in LateModes) => (mode' \in LateModes)]_vars
    /\ [][(mode # "Text" /\ mode' = "Text") => (mode = "InHead")]_vars
    /\ [][(mode = "Text" /\ mode' # "Text") => (mode' = "InHead")]_vars
    /\ [](\A tag \in {TagHtml, TagHead, TagBody} : Cardinality(ElementsOf(tag)) <= 1)

\* <body></body></html><body>: the second <body> arrives in AfterAfterBody,
\* the mode goes back to InBody and no second body element is inserted
C38_Witness ==
    /\ src.kind = "raw" /\ src.pieces = <<ClosedDocument, OpenTag(TagBody)>>
    /\ pstatus = "returned" /\ mode = "InBody"
    /\ Cardinality(ElementsOf(TagBody)) = 1
    /\ Len(nodes) = 4

-----------------------------------------------------------------------------
(* Claims about the tokenizer, checked under SpecTok *)

Finished == nones > 0 \/ tstatus # "run"
EofCount == Cardinality({ i \in 1..Len(out) : out[i] = Eof })

\* C3: when the input ends while the tokenizer is in a state other than Data,
\* next() returns a single Eof and every later call returns None; the
\* tokenizer never reads input[pos] with pos at or beyond the input length.
C3_EofInsideTag ==
    /\ tstatus # "index_out_of_bounds"
    /\ (nones > 0 /\ t.state # "Data") =>
           (Len(out) > 0 /\ Last(out) = Eof /\ EofCount = 1)

\* C6: a start tag written with attributes name="v", name='v' or name=v
\* yields one StartTag whose attribute list has exactly one (name, value)
\* entry per written attribute, in source order, the value as written minus
\* the quotes, and no attribute that was not written (two spaces between
\* attributes included).
ExpectedAttrs(as) == [i \in 1..Len(as) |-> Attribute(AttrName(i), AttrValue(i))]
C6_AttributesAsWritten ==
    (src.kind = "attrs" /\ Whole /\ Len(out) >= 1) =>
        out[1] = StartTag(<<"p">>, FALSE, ExpectedAttrs(src.attrs))

\* C7: after a <script> start tag every character of the body up to the
\* matching </script>, a `<` that does not begin </script> included, is
\* emitted as exactly one Char token, in order and verbatim, and then the
\* script EndTag is emitted.
ScriptName == <<"s", "c", "r", "i", "p", "t">>
ExpectedScriptTokens(body) ==
    <<StartTag(ScriptName, FALSE, <<>>)>>
        \o [i \in 1..Len(body) |-> Char(body[i])]
        \o <<EndTag(ScriptName)>>
C7_ScriptBodyVerbatim ==
    (src.kind = "script" /\ Whole /\ Finished) =>
        (tstatus = "run" /\ out = ExpectedScriptTokens(src.body))

\* C8: a tag `<name />` (letters, one space, slash, `>`) yields exactly one
\* StartTag whose tag is the lower-cased name, with self_closing = true and
\* no attributes.
LowerCased(name) == [i \in 1..Len(name) |-> to_ascii_lowercase(name[i])]
C8_SelfClosingTag ==
    (src.kind = "selfclose" /\ Whole) =>
        /\ tstatus = "run"
        /\ Len(out) <= 1
        /\ Len(out) = 1 => out[1] = StartTag(LowerCased(src.name), TRUE, <<>>)
        /\ nones > 0 => Len(out) = 1
C8_Witness ==
    /\ src.kind = "selfclose" /\ Whole /\ nones > 0
    /\ \E i \in 1..Len(src.name) : is_ascii_uppercase(src.name[i])
    /\ Len(out) = 1 /\ out[1].self_closing /\ out[1].tag = LowerCased(src.name)

\* C18: the tokenizer is a finite, non-restartable sequence: the cursor never
\* decreases, a call of next() that returns a token has consumed at least one
\* character (so at most input-length tokens are produced), and once next()
\* has returned None every later call returns None.
C18_FiniteNonRestartable ==
    [][ /\ t'.pos >= t.pos
        /\ Len(out') > Len(out) => t'.pos > t.pos
        /\ Len(out') <= t'.pos /\ t'.pos <= Len(t'.input)
        /\ nones > 0 => (nones' = nones + 1 /\ out' = out /\ tstatus' = "run")
      ]_vars
C18_Witness ==
    /\ nones = MaxNoneCalls /\ tstatus = "run"
    /\ Len(out) >= 2 /\ t.pos = Len(t.input)

\* C20: every StartTag/EndTag name and every attribute name emitted contains
\* no ASCII uppercase letter, for any input, while attribute values keep the
\* case in which they were written.
NoUppercase(sq) == \A i \in 1..Len(sq) : ~is_ascii_uppercase(sq[i])
C20_NamesLowerCased ==
    /\ \A k \in 1..Len(out) :
          IsTag(out[k]) =>
              /\ NoUppercase(out[k].tag)
              /\ \A i \in 1..Len(out[k].attributes) :
                    NoUppercase(out[k].attributes[i].name)
    /\ (src.kind = "cased" /\ Whole /\ Len(out) >= 1) =>
          out[1] = StartTag(LowerCased(src.name), FALSE,
                            <<Attribute(LowerCased(src.body), src.body)>>)
C20_Witness ==
    /\ src.kind = "cased" /\ Whole /\ nones > 0 /\ Len(out) = 2
    /\ ~NoUppercase(src.name) /\ ~NoUppercase(src.body)
    /\ out[1].attributes[1].value = src.body
    /\ out[1].attributes[1].name # src.body
    /\ out[2] = EndTag(LowerCased(src.name))

ScriptStates ==
    {"ScriptData", "ScriptDataLessThanSign", "ScriptDataEndTagOpen",
     "ScriptDataEndTagName", "TemporaryBuffer"}

\* the states the loop of next() passes through when called on tz
RECURSIVE StatesVisited(_)
StatesVisited(tz) ==
    IF ~InBounds(tz) THEN {tz.state}
    ELSE LET r == StateStep(IF tz.reconsume THEN reconsume_input(tz)
                                            ELSE consume_next_input(tz),
                            tz.input[ReadIndex(tz) + 1])
         IN {tz.state, r.t.state} \cup (IF r.done THEN {} ELSE StatesVisited(r.t))

\* C36: starting from State::Data no input drives the tokenizer into
\* ScriptData, ScriptDataLessThanSign, ScriptDataEndTagOpen,
\* ScriptDataEndTagName or TemporaryBuffer, neither between two calls of
\* next() nor inside one; a script body yields the tokens the Data-state
\* rules give for it.
C36_ScriptStatesUnreachable ==
    /\ t.state \notin ScriptStates
    /\ (tstatus = "run" /\ t.pos < Len(t.input))
           => StatesVisited(t) \cap ScriptStates = {}

\* <script>j</script> read to its end: the start tag, one Char and the end tag
C36_Witness ==
    /\ src.kind = "script" /\ Whole /\ src.body = <<"j">>
    /\ nones > 0 /\ tstatus = "run"
    /\ out = <<StartTag(ScriptName, FALSE, <<>>), Char("j"), EndTag(ScriptName)>>
    /\ t.state = "Data"

\* C37: the tag name of every emitted StartTag/EndTag holds no space, `/` or
\* `>`; a start tag written <name/> yields one StartTag whose tag is the
\* name, with self_closing = true.
C37_SlashNotInTagName ==
    /\ \A i \in 1..Len(out) :
           IsTag(out[i]) =>
               \A j \in 1..Len(out[i].tag) : out[i].tag[j] \notin {" ", "/", ">"}
    /\ (src.kind = "slashed" /\ Whole /\ Len(out) >= 1) =>
           out[1] = StartTag(LowerCased(src.name), TRUE, <<>>)

-----------------------------------------------------------------------------
(* Inputs of the CSS parser: a sheet is a sequence of rules, each written   *)
(* as prelude `{` declarations `}`; the parser reads the tokens of the text *)

MaxRules == 2   \* rules of a sheet
MaxDecls == 2   \* declarations of a rule

WellFormedKinds == {"type", "id", "class"}
RuleKinds == WellFormedKinds \cup {"at"}
\* constructs the parser does not support, each written without declarations:
\* `* {}`, `. {}` and `s { p :` with nothing after the colon
UnsupportedKinds == {"delim", "dot", "cut"}
\* a selector with a pseudo-class: `s:hover {`, `#s:hover {`, `.s:hover {`
PseudoKinds == {"type_pseudo", "id_pseudo", "class_pseudo"}
\* at-rules: `@s x { .. }` ("at"), `@s "Hey";` and `@s x { s { .. } }`
AtKinds == {"at", "import", "media"}
\* rules without a block: `@s "Hey";` and `s:hover`
OpenKinds == {"import", "type_pseudo_open"}
\* a rule with one declaration that lacks its colon: `pz v;` as the first
\* declaration, `pz v` or `pz` alone as the last one before `}`
DropKinds == {"drop_first", "drop_value_last", "drop_name_last"}
RuleSpecs ==
    [kind : RuleKinds \cup PseudoKinds \cup {"media"} \cup DropKinds,
     n : 0..MaxDecls, semi : BOOLEAN]
        \cup [kind : UnsupportedKinds \cup OpenKinds, n : {0}, semi : {FALSE}]
Sheets == SeqsUpTo(RuleSpecs, MaxRules)

\* names and values differ by position, so that an exchange shows
SelName(j)  == <<"s", LowerSeq[j]>>
PropName(i) == <<"p", LowerSeq[i]>>
ValueTokens == << Ident(<<"r", "e", "d">>), Number(<<"4", "0">>),
                  StringToken(<<"H", "e", "y">>), HashToken(<<"#", "f", "f">>) >>
ValueAt(j, i) == ValueTokens[((i + j) % Len(ValueTokens)) + 1]
StrHover == <<"h", "o", "v", "e", "r">>
DroppedName == <<"p", "z">>

PreludeTokens(r, j) ==
    CASE r.kind \in {"type_pseudo", "type_pseudo_open"} ->
            << Ident(SelName(j)), Colon, Ident(StrHover) >>
      [] r.kind = "id_pseudo" ->
            << HashToken(<<"#">> \o SelName(j)), Colon, Ident(StrHover) >>
      [] r.kind = "class_pseudo" ->
            << Delim("."), Ident(SelName(j)), Colon, Ident(StrHover) >>
      [] r.kind = "import" ->
            << AtKeyword(SelName(j)), StringToken(<<"H", "e", "y">>), SemiColon >>
      [] r.kind = "media" -> << AtKeyword(SelName(j)), Ident(<<"x">>) >>
      [] r.kind \in DropKinds -> << Ident(SelName(j)) >>
      [] r.kind = "type"  -> << Ident(SelName(j)) >>
      [] r.kind = "id"    -> << HashToken(<<"#">> \o SelName(j)) >>
      [] r.kind = "class" -> << Delim("."), Ident(SelName(j)) >>
      [] r.kind = "at"    -> << AtKeyword(SelName(j)), Ident(<<"x">>) >>
      [] r.kind = "delim" -> << Delim("*") >>
      [] r.kind = "dot"   -> << Delim(".") >>
      [] r.kind = "cut"   -> << Ident(SelName(j)) >>

RECURSIVE DeclTokens(_, _, _)
DeclTokens(r, j, i) ==
    IF i > r.n THEN <<>>
    ELSE << Ident(PropName(i)), Colon, ValueAt(j, i) >>
         \o (IF i < r.n \/ r.semi THEN << SemiColon >> ELSE <<>>)
         \o DeclTokens(r, j, i + 1)

RuleTokens(r, j) ==
    CASE r.kind = "cut" ->
            PreludeTokens(r, j) \o << OpenCurly, Ident(PropName(1)), Colon >>
      [] r.kind \in OpenKinds -> PreludeTokens(r, j)
      [] r.kind = "media" ->
            PreludeTokens(r, j) \o << OpenCurly, Ident(SelName(j)), OpenCurly >>
                \o DeclTokens(r, j, 1) \o << CloseCurly, CloseCurly >>
      [] r.kind = "drop_first" ->
            PreludeTokens(r, j)
                \o << OpenCurly, Ident(DroppedName), ValueAt(j, 0), SemiColon >>
                \o DeclTokens(r, j, 1) \o << CloseCurly >>
      [] r.kind = "drop_value_last" ->
            PreludeTokens(r, j) \o << OpenCurly >>
                \o DeclTokens([r EXCEPT !.semi = TRUE], j, 1)
                \o << Ident(DroppedName), ValueAt(j, 0) >>
                \o (IF r.semi THEN << SemiColon >> ELSE <<>>) \o << CloseCurly >>
      [] r.kind = "drop_name_last" ->
            PreludeTokens(r, j) \o << OpenCurly >>
                \o DeclTokens([r EXCEPT !.semi = TRUE], j, 1)
                \o << Ident(DroppedName) >>
                \o (IF r.semi THEN << SemiColon >> ELSE <<>>) \o << CloseCurly >>
      [] OTHER ->
            PreludeTokens(r, j) \o << OpenCurly >> \o DeclTokens(r, j, 1)
                \o << CloseCurly >>

RECURSIVE SheetTokensFrom(_, _)
SheetTokensFrom(sheet, j) ==
    IF j > Len(sheet) THEN <<>>
    ELSE RuleTokens(sheet[j], j) \o SheetTokensFrom(sheet, j + 1)

SheetTokens(sheet) == SheetTokensFrom(sheet, 1)

-----------------------------------------------------------------------------
(* parse_stylesheet, one pass of the loop of consume_list_of_rules at a time *)

CssParserNew(tokens) ==
    [tokens |-> tokens, pos |-> 0, status |-> "run", rules |-> <<>>]

\* rules.push(r)
PushRule_Front(rules, r) == <<r>> \o rules
PushRule(rules, r) == Append(rules, r)

InitCss ==
    /\ \E s \in Sheets :
          /\ src = s
          /\ css = CssParserNew(SheetTokens(s))
    /\ t = IdleTokenizer
    /\ TokIdle /\ TreeIdle /\ LayoutIdle

\* CssToken::AtKeyword(_) => { let _rule = self.consume_qualified_rule(); }
ConsumeAtRule ==
    /\ css.status = "run"
    /\ CssPeek(css).type = "AtKeyword"
    /\ css' = consume_qualified_rule(css).cs
    /\ UNCHANGED <<t, tokVars, treeVars, layoutVars, src>>

\* _ => match self.consume_qualified_rule() { Some(r) => push, None => return }
ConsumeRule ==
    /\ css.status = "run"
    /\ CssPeek(css).type \notin {"None", "AtKeyword"}
    /\ LET r == consume_qualified_rule(css) IN
         css' = IF ~CssRunning(r.cs) THEN r.cs
                ELSE IF r.some THEN [r.cs EXCEPT !.rules = PushRule(@, r.rule)]
                ELSE [r.cs EXCEPT !.status = "returned"]
    /\ UNCHANGED <<t, tokVars, treeVars, layoutVars, src>>

\* let Some(token) = self.t.peek() else { return rules; };
RulesEnd ==
    /\ css.status = "run"
    /\ CssPeek(css) = NoCssToken
    /\ css' = [css EXCEPT !.status = "returned"]
    /\ UNCHANGED <<t, tokVars, treeVars, layoutVars, src>>

NextCss ==
    \/ ConsumeAtRule
    \/ ConsumeRule
    \/ RulesEnd

SpecCss == InitCss /\ [][NextCss]_vars

-----------------------------------------------------------------------------
(* Claims about the CSS parser, checked under SpecCss *)

Parsed == css.status = "returned"

ExpectedSelector(r, j) ==
    CASE r.kind \in {"type", "type_pseudo"} \cup DropKinds -> TypeSelector(SelName(j))
      [] r.kind \in {"id", "id_pseudo"}       -> IdSelector(SelName(j))
      [] r.kind \in {"class", "class_pseudo"} -> ClassSelector(SelName(j))
      [] OTHER            -> UnknownSelector

ExpectedRule(r, j) ==
    QualifiedRule(ExpectedSelector(r, j),
                  [i \in 1..r.n |-> Declaration(PropName(i), ValueAt(j, i))])

AllQualified(sheet) == \A j \in 1..Len(sheet) : sheet[j].kind \in WellFormedKinds

\* C9: a sheet of N well-formed qualified rules (N >= 0) is parsed into
\* exactly N rules, in source order, each with its declarations in source
\* order.
C9_RulesInSourceOrder ==
    (Parsed /\ AllQualified(src)) =>
        css.rules = [j \in 1..Len(src) |-> ExpectedRule(src[j], j)]

C9_Witness ==
    /\ Parsed /\ AllQualified(src)
    /\ Len(src) = 2 /\ Len(css.rules) = 2
    /\ Len(css.rules[1].declarations) = 2
    /\ css.rules[1] # css.rules[2]

\* the positions of the qualified rules of a sheet, in source order
QualifiedPositions(sheet) ==
    SelectSeq([j \in 1..Len(sheet) |-> j], LAMBDA j : sheet[j].kind # "at")

\* C10: a prelude that is one identifier, a hash token `#name`, or `.` and
\* an identifier gives TypeSelector(name), IdSelector(name) without the `#`,
\* or ClassSelector(name).
C10_SelectorOfPrelude ==
    (Parsed /\ \A j \in 1..Len(src) : src[j].kind \in RuleKinds) =>
        LET q == QualifiedPositions(src) IN
        /\ Len(css.rules) = Len(q)
        /\ \A k \in 1..Len(q) :
              css.rules[k].selector = ExpectedSelector(src[q[k]], q[k])

C10_Witness ==
    /\ Parsed /\ \A j \in 1..Len(src) : src[j].kind \in RuleKinds
    /\ \E k \in 1..Len(css.rules) : css.rules[k].selector.kind = "IdSelector"
    /\ \E k \in 1..Len(css.rules) : css.rules[k].selector.kind \in {"TypeSelector", "ClassSelector"}

\* C11: parse_stylesheet never panics: a selector that starts with a
\* delimiter other than `.`, a `.` not followed by an identifier, or a
\* declaration whose value is missing at the end of input is ignored and a
\* StyleSheet is returned.
C11_ParseStylesheetNeverPanics == css.status # "panic"

\* C22: parse_stylesheet terminates on every finite token sequence, also
\* when an at-keyword, or a type selector followed by `:`, is not followed
\* by a `{` before the end of the input: no loop of the parser runs forever.
C22_ParseStylesheetTerminates == css.status # "hang"

KindsIn(sheet, kinds) == \A j \in 1..Len(sheet) : sheet[j].kind \in kinds

\* the rules expected of the rules of a sheet that are not at-rules
ExpectedQualified(sheet) ==
    LET q == SelectSeq([j \in 1..Len(sheet) |-> j],
                       LAMBDA j : sheet[j].kind \notin AtKinds)
    IN [k \in 1..Len(q) |-> ExpectedRule(sheet[q[k]], q[k])]

\* C24: a rule introduced by an at-keyword (`@s "Hey";`, `@s x { .. }`,
\* `@s x { s { .. } }`) adds no entry to the style sheet, and every qualified
\* rule of the sheet is returned with its own selector and declarations, in
\* source order.
C24_AtRuleDiscardedAlone ==
    (Parsed /\ KindsIn(src, WellFormedKinds \cup AtKinds)) =>
        css.rules = ExpectedQualified(src)

\* C25: a selector followed by a pseudo-class gives the selector before the
\* colon: `s:hover {` TypeSelector(s), `.s:hover {` ClassSelector(s),
\* `#s:hover {` IdSelector(s), with the declarations of its block.
C25_PseudoClassDegrades ==
    (Parsed /\ KindsIn(src, PseudoKinds)) =>
        css.rules = [j \in 1..Len(src) |-> ExpectedRule(src[j], j)]

\* C26: a declaration without its colon gives no Declaration and the rest is
\* parsed as if it were absent: the other declarations of the rule are
\* recorded, the rule ends at its own `}` and the rules that follow stay
\* rules of their own, also when the declaration is the last before `}`.
C26_MalformedDeclarationDropped ==
    (Parsed /\ KindsIn(src, WellFormedKinds \cup DropKinds)) =>
        css.rules = [j \in 1..Len(src) |-> ExpectedRule(src[j], j)]

-----------------------------------------------------------------------------
(* A Text layout object on its own: LayoutObject::new, the size pass, the   *)
(* position pass and paint, for a text of words separated by white space    *)

MaxWords   == 4    \* words of a text
MaxWordLen == 30   \* characters of a word

TextSeparators == {<<" ">>, <<" ", " ">>, <<"\n">>}
ParentPoints == {LayoutPoint(0, 0), LayoutPoint(0, 40)}

RECURSIVE WordsText(_, _, _)
WordsText(n, len, sep) ==
    IF n = 0 THEN <<>>
    ELSE [i \in 1..len |-> "w"] \o (IF n > 1 THEN sep ELSE <<>>)
             \o WordsText(n - 1, len, sep)

TextStyle(font_size) ==
    [background_color |-> "white", color |-> "black",
     display |-> "Inline", font_size |-> font_size]

InitText ==
    /\ \E n \in 1..MaxWords, len \in 1..MaxWordLen, sep \in TextSeparators,
          fs \in FontSizes, pp \in ParentPoints :
          /\ src = [words |-> n, word_len |-> len, sep |-> sep, parent_point |-> pp]
          /\ obj = [stage |-> "new", kind |-> "Text", text |-> WordsText(n, len, sep),
                    style |-> TextStyle(fs),
                    rect |-> LayoutRect(LayoutPoint(0, 0), LayoutSize(0, 0)),
                    items |-> <<>>, hit |-> [some |-> FALSE]]
    /\ t = IdleTokenizer /\ page = IdlePage
    /\ TokIdle /\ TreeIdle /\ CssIdle

\* calculate_node_size on a Text object: compute_size
TextComputeSize ==
    /\ obj.stage = "new"
    /\ obj' = [obj EXCEPT !.stage = "sized",
                          !.rect.size = ComputeSizeText(obj.text, obj.style.font_size)]
    /\ UNCHANGED <<t, tokVars, treeVars, css, page, src>>

\* calculate_node_position on a Text object that is a first child
TextComputePosition ==
    /\ obj.stage = "sized"
    /\ obj' = [obj EXCEPT !.stage = "placed",
                          !.rect.point = compute_position("Text", src.parent_point,
                                                          "Block", NoRect)]
    /\ UNCHANGED <<t, tokVars, treeVars, css, page, src>>

TextPaint ==
    /\ obj.stage = "placed"
    /\ obj' = [obj EXCEPT !.stage = "painted",
                          !.items = PaintText(obj.text, obj.style, obj.rect.point)]
    /\ UNCHANGED <<t, tokVars, treeVars, css, page, src>>

\* where a coordinate lies on an axis of a rect that starts at `low` and is
\* `extent` long: one pixel before it, on its low edge, inside, on its high
\* edge, one pixel after it
Places == {"before", "low", "inside", "high", "after"}
Coordinate(place, low, extent) ==
    CASE place = "before" -> low - 1
      [] place = "low"    -> low
      [] place = "inside" -> low + 1
      [] place = "high"   -> low + extent
      [] place = "after"  -> low + extent + 1

\* a hit test of the rect of the object, as find_node_by_position makes it
TextHitTest ==
    /\ obj.stage = "painted"
    /\ \E px \in Places, py \in Places :
          LET point == LayoutPoint(
                           Coordinate(px, obj.rect.point.x, obj.rect.size.width),
                           Coordinate(py, obj.rect.point.y, obj.rect.size.height))
          IN obj' = [obj EXCEPT !.stage = "tested",
                                !.hit = [some |-> TRUE, px |-> px, py |-> py,
                                         point |-> point,
                                         is_hit |-> is_hit(obj.rect, point)]]
    /\ UNCHANGED <<t, tokVars, treeVars, css, page, src>>

NextText ==
    \/ TextComputeSize
    \/ TextComputePosition
    \/ TextPaint
    \/ TextHitTest

SpecText == InitText /\ [][NextText]_vars

-----------------------------------------------------------------------------
(* Claims about a Text layout object, checked under SpecText *)

TextWidth == CHAR_WIDTH * FontSizeRatio(obj.style.font_size) * Len(obj.text)
LineHeight == CHAR_HEIGHT_WITH_PADDING * FontSizeRatio(obj.style.font_size)
CeilDiv(a, b) == (a + b - 1) \div b

\* C14: for a Text object wider than CONTENT_AREA_WIDTH paint emits exactly
\* ceil(width / CONTENT_AREA_WIDTH) Text items, the line count the size pass
\* used for the height; the y of each item exceeds the previous one's by one
\* line height (CHAR_HEIGHT_WITH_PADDING x ratio), so that all lines lie
\* inside the object's rect.
C14_TextLinesMatchSize ==
    (obj.stage = "painted" /\ TextWidth > CONTENT_AREA_WIDTH) =>
        /\ Len(obj.items) = CeilDiv(TextWidth, CONTENT_AREA_WIDTH)
        /\ obj.rect.size.height = LineHeight * Len(obj.items)
        /\ \A i \in 2..Len(obj.items) :
              obj.items[i].layout_point.y = obj.items[i - 1].layout_point.y + LineHeight
        /\ \A i \in 1..Len(obj.items) :
              /\ obj.items[i].layout_point.y >= obj.rect.point.y
              /\ obj.items[i].layout_point.y + LineHeight
                    <= obj.rect.point.y + obj.rect.size.height

\* C15: is_hit is true exactly for the points of the closed rectangle: a
\* point hits when each coordinate is on the low edge, inside or on the high
\* edge, and misses when a coordinate is one pixel outside an edge.
C15_IsHitInclusive ==
    obj.stage = "tested" =>
        (obj.hit.is_hit <=> (/\ obj.hit.px \in {"low", "inside", "high"}
                             /\ obj.hit.py \in {"low", "inside", "high"}))

C15_Witness ==
    /\ obj.stage = "tested"
    /\ obj.hit.px = "high" /\ obj.hit.py = "high"
    /\ obj.hit.is_hit
    /\ obj.rect.size.width > 1 /\ obj.rect.point.y > 0

\* what split_text is called with by paint
SplitCharWidth == CHAR_WIDTH * FontSizeRatio(obj.style.font_size)
SplitLimit == (WINDOW_WIDTH + WINDOW_PADDING) \div SplitCharWidth
PaintedLines == [i \in 1..Len(obj.items) |-> obj.items[i].text]

\* `lines` are `plain` cut into pieces: every piece but the last is not
\* empty, and the cut after it either drops one space or, the piece being
\* `limit` characters without a space, falls between two characters
RECURSIVE CutsOf(_, _, _)
CutsOf(plain, lines, limit) ==
    IF Len(lines) <= 1 THEN lines = <<plain>>
    ELSE LET l    == Head(lines)
             rest == SubSeq(plain, Len(l) + 1, Len(plain))
         IN /\ Len(l) >= 1 /\ Len(l) <= Len(plain)
            /\ SubSeq(plain, 1, Len(l)) = l
            /\ IF rest # <<>> /\ Head(rest) = " "
               THEN CutsOf(Tail(rest), Tail(lines), limit)
               ELSE /\ Len(l) = limit
                    /\ \A i \in 1..Len(l) : l[i] # " "
                    /\ CutsOf(rest, Tail(lines), limit)

\* C39: for a whitespace-normalised line split_text ends and returns lines
\* each at most WINDOW_WIDTH + WINDOW_PADDING pixels wide, which are the line
\* cut into pieces in order: a cut drops only a space and falls inside a word
\* only when no space lies before the limit.
C39_SplitTextCutsAtSpaces ==
    obj.stage = "painted" =>
        /\ Len(obj.items) >= 1
        /\ \A i \in 1..Len(obj.items) :
               Len(obj.items[i].text) * SplitCharWidth <= WINDOW_WIDTH + WINDOW_PADDING
        /\ CutsOf(PlainText(obj.text), PaintedLines, SplitLimit)

\* two words of 30 characters at XXLarge (25 characters to a line): each
\* word is cut after 25 characters, and the space between them is dropped
C39_Witness ==
    /\ obj.stage = "painted"
    /\ src.words = 2 /\ src.word_len = 30 /\ obj.style.font_size = "XXLarge"
    /\ Len(obj.items) = 4
    /\ Len(obj.items[1].text) = 25 /\ Len(obj.items[2].text) = 5
    /\ Len(obj.items[3].text) = 25 /\ Len(obj.items[4].text) = 5

-----------------------------------------------------------------------------
(* create_layout_object on its own: the cascade of a sheet of rules over    *)
(* the element <p class=c id=i>, created with no parent object or under a   *)
(* parent object whose colours are not the initial ones.                    *)

MaxStyleRules == 2   \* rules of a sheet
MaxStyleDecls == 2   \* declarations of a rule

\* selectors: the first three match the element
SelectorTexts ==
    [type |-> <<"p">>, class |-> <<".", "c">>, id |-> <<"#", "i">>, other |-> <<"a">>]
StyleSelectors == {"type", "class", "id", "other"}
MatchingSelectors == {"type", "class", "id"}

StyleDecls ==
    { [prop |-> "color", text |-> StrColor, value |-> StrRed, computed |-> "red"],
      [prop |-> "color", text |-> StrColor, value |-> StrBlue, computed |-> "blue"],
      [prop |-> "background_color", text |-> StrBackgroundColor,
       value |-> StrBlue, computed |-> "blue"],
      [prop |-> "display", text |-> StrDisplay, value |-> StrInline,
       computed |-> "Inline"] }

StyleRules ==
    [sel : StyleSelectors,
     decls : UNION { [1..k -> StyleDecls] : k \in 1..MaxStyleDecls }]

RECURSIVE DeclsText(_)
DeclsText(decls) ==
    IF decls = <<>> THEN <<>>
    ELSE Head(decls).text \o <<":">> \o Head(decls).value \o <<";">>
             \o DeclsText(Tail(decls))

RECURSIVE RulesText(_)
RulesText(rules) ==
    IF rules = <<>> THEN <<>>
    ELSE SelectorTexts[Head(rules).sel] \o <<"{">> \o DeclsText(Head(rules).decls)
             \o <<"}">> \o RulesText(Tail(rules))

\* the DOM: the Document and the element
StyleDom ==
    <<DocumentNode,
      create_element(TagP, <<Attribute(StrClass, <<"c">>), Attribute(StrId, <<"i">>)>>)>>
StyledElement == Len(StyleDom)

\* the arena before the element's object is created
ParentObject ==
    [LayoutObjectNew(DocumentId, 0) EXCEPT
        !.style = [background_color |-> "red", color |-> "blue",
                   display |-> "Block", font_size |-> "XLarge"]]
StyleParents == {0, 1}

InitStyle ==
    /\ \E rs \in UNION { [1..k -> StyleRules] : k \in 0..MaxStyleRules },
          parent_obj \in StyleParents :
          src = [rules |-> rs, parent_obj |-> parent_obj]
    /\ obj = [stage |-> "new", cssom |-> <<>>, some |-> FALSE,
              object |-> LayoutObjectNew(0, 0)]
    /\ t = IdleTokenizer /\ page = IdlePage
    /\ TokIdle /\ TreeIdle /\ CssIdle

\* CssParser::new(CssTokenizer::new(style)).parse_stylesheet()
StyleParse ==
    /\ obj.stage = "new"
    /\ LET cssom == parse_stylesheet(RulesText(src.rules)) IN
       obj' = [obj EXCEPT !.stage = cssom.status, !.cssom = cssom.rules]
    /\ UNCHANGED <<t, tokVars, treeVars, css, page, src>>

\* create_layout_object(node, parent_obj, cssom)
StyleCreate ==
    /\ obj.stage = "returned"
    /\ LET created == create_layout_object(<<ParentObject>>, StyleDom, StyledElement,
                                           src.parent_obj, obj.cssom)
       IN obj' = [obj EXCEPT !.stage = "created", !.some = created.some,
                             !.object = created.object]
    /\ UNCHANGED <<t, tokVars, treeVars, css, page, src>>

NextStyle ==
    \/ StyleParse
    \/ StyleCreate

SpecStyle == InitStyle /\ [][NextStyle]_vars

-----------------------------------------------------------------------------
(* Claims about the cascade, checked under SpecStyle *)

\* the declarations of the rules that match the element, in sheet order
RECURSIVE MatchingDecls(_)
MatchingDecls(rules) ==
    IF rules = <<>> THEN <<>>
    ELSE (IF Head(rules).sel \in MatchingSelectors THEN Head(rules).decls ELSE <<>>)
             \o MatchingDecls(Tail(rules))

Declaring(ds, prop) == { i \in 1..Len(ds) : ds[i].prop = prop }
LastIndex(idx) == CHOOSE i \in idx : \A j \in idx : j <= i
CascadedProperties == {"background_color", "color", "display"}

\* C12: for the element matched by several rules that declare the same
\* recognised property, the computed value is that of the last such
\* declaration in sheet order, whatever the kinds of the selectors; a
\* property no later matching rule declares keeps the value an earlier rule
\* gave it.
C12_LastDeclarationWins ==
    obj.stage = "created" =>
        /\ obj.some
        /\ \A prop \in CascadedProperties :
              LET ds == MatchingDecls(src.rules) IN
              Declaring(ds, prop) # {} =>
                  obj.object.style[prop] = ds[LastIndex(Declaring(ds, prop))].computed

C12_Witness ==
    /\ obj.stage = "created" /\ obj.some
    /\ src.parent_obj = 1
    /\ Len(src.rules) = 2
    /\ src.rules[1].sel = "id" /\ src.rules[2].sel = "type"
    /\ Len(src.rules[1].decls) = 2
    /\ src.rules[1].decls[1].prop = "background_color"
    /\ src.rules[1].decls[2].prop = "color" /\ src.rules[1].decls[2].computed = "red"
    /\ Len(src.rules[2].decls) = 1
    /\ src.rules[2].decls[1].prop = "color" /\ src.rules[2].decls[1].computed = "blue"
    /\ obj.object.style.color = "blue"
    /\ obj.object.style.background_color = "blue"

-----------------------------------------------------------------------------
(* cascading_style on its own: the declarations of one rule that matches    *)
(* the element <p class=c id=i>, applied one pass of the loop at a time,    *)
(* then create_layout_object with that rule as the whole sheet.  The values *)
(* are component values as the CSS parser hands them over.                  *)

MaxCascadeDecls == 2   \* declarations of the rule

StrWidth  == <<"w", "i", "d", "t", "h">>
StrTeal   == <<"t", "e", "a", "l">>
StrFlex   == <<"f", "l", "e", "x">>
CodeRed   == <<"#", "f", "f", "0", "0", "0", "0">>
CodeOther == <<"#", "1", "2", "3", "4", "5", "6">>

CascadeProperties == {StrBackgroundColor, StrColor, StrDisplay, StrWidth}
CascadeValues ==
    { Ident(StrRed), Ident(StrTeal), Ident(StrBlock), Ident(StrInline), Ident(StrNone),
      Ident(StrFlex), HashToken(CodeRed), HashToken(CodeOther), Number(<<"1">>) }
CascadeDecls == { Declaration(p, v) : p \in CascadeProperties, v \in CascadeValues }

InitCascade ==
    /\ \E ds \in UNION { [1..k -> CascadeDecls] : k \in 0..MaxCascadeDecls },
          parent_obj \in StyleParents :
          src = [decls |-> ds, parent_obj |-> parent_obj]
    /\ obj = [stage |-> "cascade", k |-> 1, style |-> ComputedStyleDefault,
              some |-> FALSE, object |-> LayoutObjectNew(0, 0)]
    /\ t = IdleTokenizer /\ page = IdlePage
    /\ TokIdle /\ TreeIdle /\ CssIdle

\* for declaration in declarations { match declaration.property ... }
CascadeStep ==
    /\ obj.stage = "cascade" /\ obj.k <= Len(src.decls)
    /\ obj' = [obj EXCEPT !.style = CascadeDeclaration(obj.style, src.decls[obj.k]),
                          !.k = obj.k + 1]
    /\ UNCHANGED <<t, tokVars, treeVars, css, page, src>>

\* create_layout_object(node, parent_obj, cssom) for the sheet p { decls }
CascadeCreate ==
    /\ obj.stage = "cascade" /\ obj.k > Len(src.decls)
    /\ LET created == create_layout_object(<<ParentObject>>, StyleDom, StyledElement,
                          src.parent_obj, <<QualifiedRule(TypeSelector(TagP), src.decls)>>)
       IN obj' = [obj EXCEPT !.stage = "created", !.some = created.some,
                             !.object = created.object]
    /\ UNCHANGED <<t, tokVars, treeVars, css, page, src>>

NextCascade ==
    \/ CascadeStep
    \/ CascadeCreate

SpecCascade == InitCascade /\ [][NextCascade]_vars

-----------------------------------------------------------------------------
(* Claims about cascading_style, checked under SpecCascade *)

IsColourValue(v) == v.type \in {"Ident", "HashToken"}
UnknownColour(v) ==
    \/ v.type = "Ident" /\ v.v \notin ColorNames
    \/ v.type = "HashToken" /\ v.v # CodeRed
InvalidDisplay(v) == v.type = "Ident" /\ v.v \notin {StrBlock, StrInline, StrNone}

\* the last display declaration with an identifier as value, 0 if none
DisplayIdents(ds) ==
    { i \in 1..Len(ds) : ds[i].property = StrDisplay /\ ds[i].value.type = "Ident" }

\* C32: in cascading_style an invalid value falls back rather than being
\* skipped: a display declaration whose identifier is not block, inline or
\* none sets display to none, and if it is the last display declaration of
\* the rules that match, create_layout_object returns no layout object; an
\* unknown colour name or code sets background-color to white and color to
\* black; a declaration of any other property leaves the style unchanged.
C32_InvalidValueFallsBack ==
    /\ [][(obj.stage = "cascade" /\ obj.k <= Len(src.decls)) =>
            LET d == src.decls[obj.k] IN
            CASE d.property = StrDisplay /\ InvalidDisplay(d.value) ->
                   obj'.style = [obj.style EXCEPT !.display = "DisplayNone"]
              [] d.property = StrBackgroundColor /\ UnknownColour(d.value) ->
                   obj'.style = [obj.style EXCEPT !.background_color = ColorWhite]
              [] d.property = StrColor /\ UnknownColour(d.value) ->
                   obj'.style = [obj.style EXCEPT !.color = ColorBlack]
              [] d.property \notin {StrDisplay, StrBackgroundColor, StrColor} ->
                   obj'.style = obj.style
              [] OTHER -> TRUE]_vars
    /\ []((/\ obj.stage = "created"
           /\ DisplayIdents(src.decls) # {}
           /\ InvalidDisplay(src.decls[LastIndex(DisplayIdents(src.decls))].value))
          => ~obj.some)

\* p { color: teal; display: flex } under a parent whose colour is blue: the
\* colour is black, not the inherited blue, and there is no layout object
C32_Witness ==
    /\ obj.stage = "created"
    /\ src.parent_obj = 1
    /\ src.decls = <<Declaration(StrColor, Ident(StrTeal)),
                     Declaration(StrDisplay, Ident(StrFlex))>>
    /\ obj.object.style.color = ColorBlack
    /\ obj.object.style.display = "DisplayNone"
    /\ ~obj.some

-----------------------------------------------------------------------------
(* Inputs of a page: a document whose body is a forest of p, a and span     *)
(* elements and whose style element hides at most one kind of element       *)

MaxPageElems == 3   \* elements of a body

Hides == {"nothing", "p", "a", "span"}
HiddenTag(hide) ==
    CASE hide = "p" -> TagP [] hide = "a" -> TagA [] hide = "span" -> TagSpan
      [] OTHER -> <<>>
HideText(hide) ==
    IF hide = "nothing" THEN <<>>
    ELSE HiddenTag(hide) \o <<"{">> \o StrDisplay \o <<":">> \o StrNone \o <<"}">>

PageTags == {TagP, TagA, TagSpan}
LinkTarget == <<"u">>

RECURSIVE PageForestsOf(_)
PageForestsOf(n) ==
    IF n = 0 THEN {<<>>}
    ELSE UNION { { <<[tag |-> tg, lead |-> l, kids |-> inner]>> \o rest :
                     tg \in PageTags, l \in BOOLEAN,
                     inner \in PageForestsOf(k), rest \in PageForestsOf(n - 1 - k) } :
                 k \in 0..(n - 1) }

\* an a element is written <a href=u>
PageOpenTag(tag) ==
    IF tag = TagA THEN <<"<">> \o tag \o <<" ">> \o StrHref \o <<"=">> \o LinkTarget \o <<">">>
    ELSE OpenTag(tag)

RECURSIVE PageForestText(_)
PageForestText(f) ==
    IF f = <<>> THEN <<>>
    ELSE LET e == Head(f) IN
         PageOpenTag(e.tag) \o (IF e.lead THEN <<"x">> ELSE <<>>)
             \o PageForestText(e.kids) \o CloseTag(e.tag) \o PageForestText(Tail(f))

PageSources ==
    { [hide |-> h, forest |-> f] :
        h \in Hides, f \in UNION { PageForestsOf(k) : k \in 1..MaxPageElems } }

PageText(s) ==
    OpenTag(TagHtml) \o OpenTag(TagHead) \o OpenTag(TagStyle) \o HideText(s.hide)
        \o CloseTag(TagStyle) \o CloseTag(TagHead) \o OpenTag(TagBody)
        \o PageForestText(s.forest)
        \o CloseTag(TagBody) \o CloseTag(TagHtml)

\* the body of another response: a link followed by a paragraph, spans hidden
OtherSource ==
    [hide |-> "span",
     forest |-> <<[tag |-> TagA, lead |-> TRUE, kids |-> <<>>],
                  [tag |-> TagP, lead |-> TRUE, kids |-> <<>>]>>]

Responses == {"src", "other"}
ResponseBody(r) == IF r = "src" THEN PageText(src) ELSE PageText(OtherSource)

-----------------------------------------------------------------------------
(* A page driven by responses and clicks.  `page` is the Page with a record *)
(* of the last response and of the last click and what it returned.         *)

NoClick == [some |-> FALSE]

InitPage ==
    /\ src \in PageSources
    /\ page = [status |-> "ok", frame |-> NoFrame, style |-> NoStyleSheet,
               layout_view |-> NoLayoutView, display_items |-> <<>>,
               response |-> "none", click |-> NoClick]
    /\ t = IdleTokenizer /\ obj = IdleObj
    /\ TokIdle /\ TreeIdle /\ CssIdle

\* Page::recieve_response(response).  clicked takes &self: the page after a
\* click is the page before it, so responses are taken from there.
RecieveResponse ==
    /\ page.status = "ok" /\ ~page.click.some
    /\ \E r \in Responses :
          page' = [recieve_response(page, ResponseBody(r))
                      EXCEPT !.response = r, !.click = NoClick]
    /\ UNCHANGED <<t, tokVars, treeVars, css, obj, src>>

\* the points a click is made at: inside the rect of a layout object, on its
\* far corner, just right of it and just below it, and the origin
ClickPlaces ==
    { <<"inside", "inside">>, <<"high", "high">>,
      <<"after", "inside">>, <<"inside", "after">> }
ClickPoints ==
    IF ~page.layout_view.some THEN {LayoutPoint(0, 0)}
    ELSE {LayoutPoint(0, 0)} \cup
         UNION { { LayoutPoint(Coordinate(pl[1], r.point.x, r.size.width),
                               Coordinate(pl[2], r.point.y, r.size.height)) :
                     pl \in ClickPlaces } :
                 r \in { page.layout_view.objs[o].rect :
                           o \in 1..Len(page.layout_view.objs) } }

\* Page::clicked(position).  One click is recorded: clicked takes &self, so
\* a further click would find the page as this one did.
Clicked ==
    /\ page.status = "ok" /\ ~page.click.some
    /\ \E position \in ClickPoints :
          page' = [page EXCEPT !.click =
                      [some |-> TRUE, position |-> position,
                       href |-> clicked(page, position)]]
    /\ UNCHANGED <<t, tokVars, treeVars, css, obj, src>>

NextPage ==
    \/ RecieveResponse
    \/ Clicked

SpecPage == InitPage /\ [][NextPage]_vars

-----------------------------------------------------------------------------
(* Claims about a page, checked under SpecPage *)

Loaded == page.status = "ok" /\ page.response # "none"
LoadedSource == IF page.response = "src" THEN src ELSE OtherSource

\* the nodes below n, by the owning links
DescendantsOf(ns, n) == Owned(ns, {ns[n].first_child} \ {0}, {})

BodyNode(ns) == get_target_element_node(ns, DocumentId, TagBody)

\* the sheet of the page resolves exactly the elements of the hidden kind to
\* display:none
ResolvesToNone(node) ==
    node.kind = "Element" /\ node.tag = HiddenTag(LoadedSource.hide)

RECURSIVE Renderable(_, _)
Renderable(ns, ids) ==
    IF ids = <<>> THEN <<>>
    ELSE (IF ResolvesToNone(ns[Head(ids)]) THEN <<>> ELSE <<Head(ids)>>)
             \o Renderable(ns, Tail(ids))

\* the DOM nodes of the children of a layout object, in the order of its
\* first_child / next_sibling chain
RECURSIVE ObjectChain(_, _, _)
ObjectChain(objs, o, fuel) ==
    IF o = 0 \/ fuel = 0 THEN <<>>
    ELSE <<objs[o].node>> \o ObjectChain(objs, objs[o].next_sibling, fuel - 1)
ObjectChildren(objs, o) == ObjectChain(objs, objs[o].first_child, Len(objs))

ObjectNodes(objs) == { objs[o].node : o \in 1..Len(objs) }

\* C13: an element of the body subtree that resolves to display:none has no
\* layout object, nor has any of its descendants; the children of every
\* layout object are the renderable children of its node in DOM order, so
\* every renderable sibling after a hidden element is attached.
C13_DisplayNoneHidesSubtree ==
    Loaded =>
        LET ns   == page.frame.nodes
            objs == page.layout_view.objs
            body == BodyNode(ns)
        IN /\ \A n \in DescendantsOf(ns, body) :
                 ResolvesToNone(ns[n]) =>
                     ({n} \cup DescendantsOf(ns, n)) \cap ObjectNodes(objs) = {}
           /\ page.layout_view.root # 0
           /\ objs[page.layout_view.root].node = body
           /\ \A o \in 1..Len(objs) :
                 ObjectChildren(objs, o) = Renderable(ns, Children(ns, objs[o].node))

C13_Witness ==
    /\ Loaded /\ page.response = "src"
    /\ src.hide = "a" /\ Len(src.forest) = 2
    /\ src.forest[1].tag = TagA /\ src.forest[1].lead
    /\ src.forest[1].kids # <<>> /\ src.forest[1].kids[1].tag = TagSpan
    /\ src.forest[2].tag = TagP /\ src.forest[2].lead
    /\ LET objs == page.layout_view.objs
           kids == ObjectChildren(objs, page.layout_view.root)
       IN /\ Len(kids) = 1
          /\ page.frame.nodes[kids[1]].tag = TagP
          /\ \E n \in DescendantsOf(page.frame.nodes, BodyNode(page.frame.nodes)) :
                page.frame.nodes[n].kind = "Element" /\ page.frame.nodes[n].tag = TagSpan

\* the elements above n, by the owning links
AncestorsOf(ns, n) ==
    { m \in 1..Len(ns) : m \in Owned(ns, {DocumentId}, {}) /\ n \in DescendantsOf(ns, m) }

IsAnchorWithHref(node) ==
    /\ node.kind = "Element" /\ node.tag = TagA
    /\ get_attribute(node.attributes, StrHref).some

\* C16: clicked returns the href of the enclosing anchor whenever the layout
\* object hit at the position has an a element with an href among its
\* ancestors, at any depth, and None when there is no layout view, nothing
\* is hit or no ancestor is an anchor.
C16_ClickedFindsEnclosingAnchor ==
    page.click.some =>
        IF ~page.layout_view.some THEN page.click.href = NoString
        ELSE LET ns   == page.frame.nodes
                 objs == page.layout_view.objs
                 hit  == find_node_by_position(objs, page.layout_view.root,
                                               page.click.position)
             IN IF hit = 0 THEN page.click.href = NoString
                ELSE IF \E m \in AncestorsOf(ns, objs[hit].node) : IsAnchorWithHref(ns[m])
                THEN page.click.href = SomeString(LinkTarget)
                ELSE page.click.href = NoString

\* the layout objects held as children by a layout object, in the order of
\* its first_child / next_sibling chain
RECURSIVE ObjectIdChain(_, _, _)
ObjectIdChain(objs, o, fuel) ==
    IF o = 0 \/ fuel = 0 THEN {}
    ELSE {o} \cup ObjectIdChain(objs, objs[o].next_sibling, fuel - 1)
ChildObjects(objs, o) == ObjectIdChain(objs, objs[o].first_child, Len(objs))

\* C27: for every layout object, the parent back-reference and the style
\* taken as inheritance source by defaulting_style are those of the layout
\* object that holds it as a child, also for an object attached through a
\* next-sibling link, which never takes its previous sibling as parent.
C27_ParentIsHolder ==
    Loaded =>
        LET ns   == page.frame.nodes
            objs == page.layout_view.objs
        IN \A h \in 1..Len(objs) : \A c \in ChildObjects(objs, h) :
              /\ objs[c].parent = h
              /\ objs[c].style =
                    create_layout_object(objs, ns, objs[c].node, h,
                                         page.style.rules).object.style

\* build_layout_tree without its fallback loops: one scan for the next
\* renderable sibling (the while loop) per first-child and next-sibling edge
RECURSIVE BuildSingleScan(_, _, _, _, _)
BuildSingleScan(objs, ns, node, parent_obj, cssom) ==
    LET target_node == TargetNode(objs, ns, node, parent_obj, cssom) IN
    IF target_node = 0 THEN [objs |-> objs, id |-> 0]
    ELSE
    LET layout_object == Len(objs) + 1
        objs1 == Append(objs,
                   create_layout_object(objs, ns, target_node, parent_obj, cssom).object)
        first_child  == BuildSingleScan(objs1, ns, ns[target_node].first_child,
                                        layout_object, cssom)
        next_sibling == BuildSingleScan(first_child.objs, ns,
                                        ns[target_node].next_sibling,
                                        layout_object, cssom)
    IN [objs |-> [next_sibling.objs EXCEPT
                     ![layout_object].first_child  = first_child.id,
                     ![layout_object].next_sibling = next_sibling.id],
        id |-> layout_object]

\* C28: the fallback loops of build_layout_tree never change its result: the
\* layout view of a page is the one built with a single scan for the next
\* renderable sibling per first-child and next-sibling edge.
C28_FallbackLoopsRedundant ==
    Loaded =>
        LET ns == page.frame.nodes IN
        page.layout_view =
            SomeLayoutView(update_layout(
                BuildSingleScan(<<>>, ns, BodyNode(ns), 0, page.style.rules), ns))

\* <p><span></span></p><span></span> with span hidden: the direct calls for
\* the first child and for the next sibling of p give no object, so both
\* fallback loops run
C28_Witness ==
    /\ Loaded /\ page.response = "src"
    /\ src.hide = "span"
    /\ src.forest = <<[tag |-> TagP, lead |-> FALSE,
                       kids |-> <<[tag |-> TagSpan, lead |-> FALSE, kids |-> <<>>]>>],
                      [tag |-> TagSpan, lead |-> FALSE, kids |-> <<>>]>>
    /\ Len(page.layout_view.objs) = 2
    /\ page.layout_view.objs[2].first_child = 0
    /\ page.layout_view.objs[2].next_sibling = 0

\* the children of a layout object as a sequence of layout objects
RECURSIVE ObjectSeq(_, _, _)
ObjectSeq(objs, o, fuel) ==
    IF o = 0 \/ fuel = 0 THEN <<>>
    ELSE <<o>> \o ObjectSeq(objs, objs[o].next_sibling, fuel - 1)
ChildSeq(objs, o) == ObjectSeq(objs, objs[o].first_child, Len(objs))

RECURSIVE SumSeq(_)
SumSeq(sq) == IF sq = <<>> THEN 0 ELSE Head(sq) + SumSeq(Tail(sq))

\* the child starts a line of its own: it is the first child, it is Block, or
\* the child before it is Block
CountsForHeight(objs, cs, i) ==
    i = 1 \/ objs[cs[i]].kind = "Block" \/ objs[cs[i - 1]].kind = "Block"

\* C29: after the size pass the height of a Block layout object is the sum
\* of the final heights of exactly those children that are Block or follow a
\* Block child (the first child always counts); a child inside a run of
\* Inline or Text siblings, other than the first of the run, adds nothing.
C29_BlockHeightSumsLines ==
    Loaded =>
        LET objs == page.layout_view.objs IN
        \A o \in 1..Len(objs) :
            objs[o].kind = "Block" =>
                LET cs == ChildSeq(objs, o) IN
                objs[o].rect.size.height =
                    SumSeq([i \in 1..Len(cs) |->
                              IF CountsForHeight(objs, cs, i)
                              THEN objs[cs[i]].rect.size.height ELSE 0])

\* a body with an Inline child of height 20 and a second Inline child of
\* height 20 on the same line: height 20
C29_Witness ==
    /\ Loaded
    /\ LET objs == page.layout_view.objs
           cs   == ChildSeq(objs, page.layout_view.root)
       IN /\ Len(cs) = 2
          /\ objs[cs[1]].kind = "Inline" /\ objs[cs[2]].kind = "Inline"
          /\ \A i \in 1..2 : objs[cs[i]].rect.size.height = 20
          /\ objs[page.layout_view.root].rect.size.height = 20

C31_BlockWidthIsParentWidth ==
    Loaded =>
        LET objs == page.layout_view.objs
            root == page.layout_view.root
        IN /\ (root # 0 /\ objs[root].kind = "Block")
                  => objs[root].rect.size.width = CONTENT_AREA_WIDTH
           /\ \A h \in 1..Len(objs) :
                  LET cs == ChildSeq(objs, h) IN
                  \A i \in 1..Len(cs) :
                      objs[cs[i]].kind = "Block"
                          => objs[cs[i]].rect.size.width = objs[h].rect.size.width

-----------------------------------------------------------------------------
(* A page that receives one response after another; `history` is the        *)
(* sequence of the responses received                                       *)

MaxResponses   == 3   \* responses a page receives
MaxReloadElems == 2   \* elements of the body of a response

ReloadSources ==
    { [hide |-> h, forest |-> f] :
        h \in Hides, f \in UNION { PageForestsOf(k) : k \in 0..MaxReloadElems } }

InitReload ==
    /\ src \in ReloadSources
    /\ page = [status |-> "ok", frame |-> NoFrame, style |-> NoStyleSheet,
               layout_view |-> NoLayoutView, display_items |-> <<>>,
               history |-> <<>>]
    /\ t = IdleTokenizer /\ obj = IdleObj
    /\ TokIdle /\ TreeIdle /\ CssIdle

\* Page::recieve_response(response)
Reload ==
    /\ page.status = "ok" /\ Len(page.history) < MaxResponses
    /\ \E r \in Responses :
          page' = [recieve_response(page, ResponseBody(r))
                      EXCEPT !.history = Append(page.history, r)]
    /\ UNCHANGED <<t, tokVars, treeVars, css, obj, src>>

NextReload == Reload

SpecReload == InitReload /\ [][NextReload]_vars

-----------------------------------------------------------------------------
(* Claims about repeated responses, checked under SpecReload *)

PageContent(pg) ==
    [frame |-> pg.frame, style |-> pg.style, layout_view |-> pg.layout_view,
     display_items |-> pg.display_items]

\* C17: after any sequence of responses the DOM, the style sheet, the layout
\* and the display items of the page are those a new page has after the
\* last response alone: a response replaces them wholesale, so the same
\* body twice in a row leaves what the first call left, and nothing of an
\* earlier response is kept.
C17_ResponseReplacesWholesale ==
    (page.status = "ok" /\ page.history # <<>>) =>
        PageContent(page) =
            PageContent(recieve_response(PageDefault, ResponseBody(Last(page.history))))

C17_Witness ==
    /\ page.status = "ok"
    /\ page.history = <<"other", "src", "src">>
    /\ src.hide = "span" /\ Len(src.forest) = 2
    /\ Len(page.display_items) = 4
    /\ page.layout_view.some /\ Len(page.layout_view.objs) = 5

-----------------------------------------------------------------------------
(* handle_url / http_get (main.rs:28-51).  The network is a map from URL to *)
(* what HttpClient::get gives for it: an error, or a response with a status *)
(* code and, possibly, a Location header.  Url::parse fails for UrlBad.     *)

UrlA   == "http://a/"
UrlB   == "http://b/"
UrlBad == "bad"
Urls   == {UrlA, UrlB, UrlBad}
NoLocation == "none"

StatusCodes == {200, 302}
HttpResponses == [status_code : StatusCodes, location : Urls \cup {NoLocation}]
NetworkError == [status_code |-> 0, location |-> NoLocation]
Networks == [Urls \ {UrlBad} -> HttpResponses \cup {NetworkError}]

HttpOk(response) == [ok |-> TRUE, response |-> response, error |-> "none"]
HttpErr(error)   == [ok |-> FALSE, response |-> NetworkError, error |-> error]
NoResult         == [ok |-> FALSE, response |-> NetworkError, error |-> "pending"]

\* h is the frame of http_get: its arguments, where it stands, what the
\* outermost call returned, and the URLs handed to HttpClient::get so far

\* Url::new(url).parse().map_err(..)?
UrlParse(h) ==
    IF h.url = UrlBad
    THEN [h EXCEPT !.pc = "returned", !.result = HttpErr("UnexpectedInput")]
    ELSE [h EXCEPT !.pc = "get"]

AfterGet_AlwaysFollows(h, response) ==
    IF response = NetworkError
    THEN [h EXCEPT !.pc = "returned", !.result = HttpErr("Network")]
    ELSE IF response.status_code = 302 /\ response.location # NoLocation
    THEN [h EXCEPT !.pc = "parse", !.url = response.location, !.redirecting = TRUE]
    ELSE [h EXCEPT !.pc = "returned", !.result = HttpOk(response)]

\* from the result of client.get to the return or the recursive call, whose
\* result is returned as it is
AfterGet(h, response) ==
    IF response = NetworkError
    THEN [h EXCEPT !.pc = "returned", !.result = HttpErr("Network")]
    ELSE IF ~h.redirecting /\ response.status_code = 302
    THEN IF response.location = NoLocation
         THEN [h EXCEPT !.pc = "returned", !.result = HttpOk(response)]
         ELSE [h EXCEPT !.pc = "parse", !.url = response.location, !.redirecting = TRUE]
    ELSE [h EXCEPT !.pc = "returned", !.result = HttpOk(response)]

MaxRequests == 4   \* requests after which the model stops a navigation

InitHttp ==
    /\ \E network \in Networks, url \in Urls :
          src = [network |-> network, url |-> url]
    /\ obj = [pc |-> "idle", url |-> "", redirecting |-> FALSE,
              requests |-> <<>>, result |-> NoResult]
    /\ t = IdleTokenizer /\ page = IdlePage
    /\ TokIdle /\ TreeIdle /\ CssIdle

\* handle_url(url): http_get(url, false)
HandleUrl ==
    /\ obj.pc = "idle"
    /\ obj' = [obj EXCEPT !.pc = "parse", !.url = src.url, !.redirecting = FALSE]
    /\ UNCHANGED <<t, tokVars, treeVars, css, page, src>>

HttpParse ==
    /\ obj.pc = "parse"
    /\ obj' = UrlParse(obj)
    /\ UNCHANGED <<t, tokVars, treeVars, css, page, src>>

\* client.get(&parsed_url) and what follows it
HttpGet ==
    /\ obj.pc = "get"
    /\ Len(obj.requests) < MaxRequests
    /\ obj' = AfterGet([obj EXCEPT !.requests = Append(obj.requests, obj.url)],
                       src.network[obj.url])
    /\ UNCHANGED <<t, tokVars, treeVars, css, page, src>>

NextHttp ==
    \/ HandleUrl
    \/ HttpParse
    \/ HttpGet

SpecHttp == InitHttp /\ [][NextHttp]_vars

-----------------------------------------------------------------------------
(* Claims about http_get, checked under SpecHttp *)

\* C33: http_get follows a 302 redirect at most once per navigation: it
\* issues at most two requests; what it returns after two requests is the
\* result of the second one, a 302 included; a first 302 without a Location
\* header is returned as it is, with no second request.
C33_RedirectFollowedOnce ==
    /\ Len(obj.requests) <= 2
    /\ (obj.pc = "returned" /\ Len(obj.requests) = 2) =>
           LET second == src.network[obj.requests[2]] IN
           /\ src.network[obj.requests[1]].status_code = 302
           /\ obj.requests[2] = src.network[obj.requests[1]].location
           /\ obj.result = IF second = NetworkError THEN HttpErr("Network")
                           ELSE HttpOk(second)
    /\ (/\ obj.pc = "returned" /\ Len(obj.requests) >= 1
        /\ src.network[obj.requests[1]].status_code = 302
        /\ src.network[obj.requests[1]].location = NoLocation) =>
           /\ Len(obj.requests) = 1
           /\ obj.result = HttpOk(src.network[obj.requests[1]])

\* a redirects to b and b redirects back to a: the 302 of b is returned
C33_Witness ==
    /\ obj.pc = "returned"
    /\ src.url = UrlA
    /\ src.network[UrlA] = [status_code |-> 302, location |-> UrlB]
    /\ src.network[UrlB] = [status_code |-> 302, location |-> UrlA]
    /\ obj.requests = <<UrlA, UrlB>>
    /\ obj.result = HttpOk([status_code |-> 302, location |-> UrlA])

-----------------------------------------------------------------------------
(* WasabiUI (ui/wasabi/src/app.rs): run_app calls handle_mouse_input and    *)
(* handle_key_input in turn.  A key is the code point of the char that      *)
(* Api::read_key gives; a mouse position is given relative to the window    *)
(* (position - WINDOW_INIT_X_POS, position - WINDOW_INIT_Y_POS).            *)

WINDOW_HEIGHT    == 400
TITLE_BAR_HEIGHT == 24
TOOLBAR_HEIGHT   == 26

MaxUrlLen == 2   \* characters typed after which only Enter and Delete are read

KeyEnter     == 10    \* 0x0a
KeyBackspace == 8     \* 0x08
KeyDelete    == 127   \* 0x7f
\* a, b, and two chars above U+00FF: U+010A and U+017F
Keys == {KeyEnter, KeyBackspace, KeyDelete, 97, 98, 266, 383}
NoKey == 0 - 1

\* c as u8
AsU8(c) == c % 256

NoMouseEvent == [some |-> FALSE, button |-> FALSE, x |-> 0, y |-> 0]
MouseXs == {0 - 1, 0, WINDOW_WIDTH, WINDOW_WIDTH + 1}
MouseYs == {0 - 1, 0, TITLE_BAR_HEIGHT - 1, TITLE_BAR_HEIGHT,
            TITLE_BAR_HEIGHT + TOOLBAR_HEIGHT - 1, TITLE_BAR_HEIGHT + TOOLBAR_HEIGHT,
            WINDOW_HEIGHT, WINDOW_HEIGHT + 1}
MouseEvents ==
    {NoMouseEvent} \cup [some : {TRUE}, button : BOOLEAN, x : MouseXs, y : MouseYs]

OutsideWindow(e) == e.x < 0 \/ e.x > WINDOW_WIDTH \/ e.y < 0 \/ e.y > WINDOW_HEIGHT
InToolbar(e) == e.y < TOOLBAR_HEIGHT + TITLE_BAR_HEIGHT /\ e.y >= TITLE_BAR_HEIGHT

\* WasabiUI::new: the fields the handlers read and write
WasabiUINew == [input_url |-> <<>>, input_mode |-> "Normal", status |-> "run"]

\* handle_mouse_input, Api::get_mouse_cursor_info() having given e
handle_mouse_input(ui, e) ==
    IF ~e.some THEN ui
    ELSE IF ~e.button THEN ui
    ELSE IF OutsideWindow(e) THEN ui
    ELSE IF InToolbar(e)
         THEN [ui EXCEPT !.input_url = <<>>, !.input_mode = "Editing"]
    ELSE [ui EXCEPT !.input_mode = "Normal"]

\* the key on which handle_key_input calls start_navigation
StartsNavigation(ui, c) ==
    ui.input_mode = "Editing" /\ c # NoKey /\ AsU8(c) = KeyEnter

\* handle_key_input, Api::read_key() having given c (NoKey for None);
\* `ok` is whether start_navigation returned Ok
handle_key_input(ui, c, ok) ==
    IF ui.input_mode = "Normal" \/ c = NoKey THEN ui
    ELSE IF AsU8(c) = KeyEnter
         THEN IF ok THEN [ui EXCEPT !.input_url = <<>>, !.input_mode = "Normal"]
              ELSE [ui EXCEPT !.status = "stopped"]
    ELSE IF AsU8(c) = KeyDelete \/ AsU8(c) = KeyBackspace
         THEN [ui EXCEPT !.input_url = SubSeq(@, 1, Len(@) - 1)]
    ELSE [ui EXCEPT !.input_url = Append(@, c)]

\* the characters typed since the last click in the toolbar, after key c:
\* Backspace and Delete remove the last one, Enter adds nothing
TypedAfter(typed, c) ==
    IF c = NoKey \/ c = KeyEnter THEN typed
    ELSE IF c = KeyDelete \/ c = KeyBackspace THEN SubSeq(typed, 1, Len(typed) - 1)
    ELSE Append(typed, c)

NoEvent == [kind |-> "none", key |-> NoKey, mouse |-> NoMouseEvent,
            mode |-> "Normal", url |-> <<>>, typed |-> <<>>,
            navigated |-> FALSE, destination |-> <<>>]

\* obj.ui is the WasabiUI, obj.typed the characters typed since the last
\* click in the toolbar, obj.last the last event handled and what the UI
\* was when it arrived
InitUi ==
    /\ src = [kind |-> "ui"]
    /\ obj = [pc |-> "mouse", ui |-> WasabiUINew, typed |-> <<>>, last |-> NoEvent]
    /\ t = IdleTokenizer /\ page = IdlePage
    /\ TokIdle /\ TreeIdle /\ CssIdle

HandleMouseInput ==
    /\ obj.pc = "mouse" /\ obj.ui.status = "run"
    /\ \E e \in MouseEvents :
          obj' = [pc |-> "key",
                  ui |-> handle_mouse_input(obj.ui, e),
                  typed |-> IF e.some /\ e.button /\ ~OutsideWindow(e) /\ InToolbar(e)
                            THEN <<>> ELSE obj.typed,
                  last |-> [NoEvent EXCEPT !.kind = "mouse", !.mouse = e,
                                           !.mode = obj.ui.input_mode,
                                           !.url = obj.ui.input_url,
                                           !.typed = obj.typed]]
    /\ UNCHANGED <<t, tokVars, treeVars, css, page, src>>

HandleKeyInput ==
    /\ obj.pc = "key" /\ obj.ui.status = "run"
    /\ \E c \in Keys \cup {NoKey}, ok \in BOOLEAN :
          /\ Len(TypedAfter(obj.typed, c)) <= MaxUrlLen
          /\ (~StartsNavigation(obj.ui, c)) => ok
          /\ obj' = [pc |-> "mouse",
                     ui |-> handle_key_input(obj.ui, c, ok),
                     typed |-> TypedAfter(obj.typed, c),
                     last |-> [NoEvent EXCEPT !.kind = "key", !.key = c,
                                              !.mode = obj.ui.input_mode,
                                              !.url = obj.ui.input_url,
                                              !.typed = obj.typed,
                                              !.navigated = StartsNavigation(obj.ui, c),
                                              !.destination = obj.ui.input_url]]
    /\ UNCHANGED <<t, tokVars, treeVars, css, page, src>>

NextUi ==
    \/ HandleMouseInput
    \/ HandleKeyInput

SpecUi == InitUi /\ [][NextUi]_vars

-----------------------------------------------------------------------------
(* Claims about WasabiUI, checked under SpecUi *)

ToolbarClick(e) == e.some /\ e.button /\ ~OutsideWindow(e) /\ InToolbar(e)

\* C40: a navigation starts only on Enter read in Editing mode, and its URL
\* is the characters typed since the last click in the toolbar, Backspace
\* and Delete having removed the last one; a key read in Normal mode leaves
\* input_url alone; Editing is entered only by a click in the toolbar.
C40_NavigationOnEnterOnly ==
    /\ obj.last.navigated =>
           /\ obj.last.key = KeyEnter
           /\ obj.last.mode = "Editing"
           /\ obj.last.destination = obj.last.typed
    /\ (obj.last.kind = "key" /\ obj.last.mode = "Normal") =>
           obj.ui.input_url = obj.last.url
    /\ (obj.last.mode = "Normal" /\ obj.ui.input_mode = "Editing") =>
           (obj.last.kind = "mouse" /\ ToolbarClick(obj.last.mouse))

=============================================================================
